---- MODULE Spec2Model ----
(***************************************************************************)
(* Model of the browser-automation pipeline of langchain-mcp               *)
(* (src/src/playwright_browser.py): the navigation orchestrator            *)
(* browser_navigate / _execute_navigate, the search-box detector, the      *)
(* search-trigger invoker and the snapshot extractor.                      *)
(*                                                                         *)
(* Python's None is the string "None"; a Playwright call that raises is an *)
(* outcome the environment chooses.  A Locator is the selector it was      *)
(* built from: page.locator(sel).first resolves to the first element of    *)
(* the page, in document order, that matches sel.                          *)
(***************************************************************************)
EXTENDS Integers, Sequences, FiniteSets, TLC

\* ------------------------------------------------------------------ bounds
\* Number of browser_navigate invocations in one behaviour.
MaxCalls == 2
\* Number of elements of a page that match a search-box selector.
MaxElems == 2
\* Number of button elements of a page.
MaxButtons == 2
\* Number of nodes of an accessibility tree.
MaxNodes == 3
\* Number of words and URLs of a query.
MaxTokens == 2
\* Number of keys ever put into the snapshot cache.
MaxInsertions == 52
\* Number of requests to /mcp/invoke.
MaxInvocations == 2
\* Number of calls of add_recent.
MaxAdds == 4
\* Largest max_items of the recent list.
MaxItems == 2

\* ------------------------------------------------------------------ state
VARIABLES
    pc,               \* position of the current invocation
    args,             \* arguments of the current invocation
    caller,           \* caller-owned browser/context/page: "open" or "closed"
    made,             \* resources this invocation created: "none"/"open"/"closed"
    closes,           \* how often each created resource was closed
    leaked,           \* created resources earlier invocations left open
    calls,            \* invocations started so far
    warnings,         \* the warnings accumulator (line 58)
    errors,           \* the errors accumulator (line 59)
    search_performed, \* line 158
    snapshot,         \* line 172
    extractions,      \* snapshot extractions made by this invocation
    search_box,       \* what _detect_search_box returned (line 179)
    button_clicked,   \* what _click_search_button returned (line 191)
    activation,       \* the act of that call that completed: "click", "press", "none"
    waits,            \* the waits for results made (lines 196-204), in order
    exc,              \* exception propagating out of the current frame
    result,           \* the NavigationResult handed to the caller
    outcome,          \* "none", "returned" or "raised"
    attempts,         \* how often each step ran in this invocation
    d_pc, d_dom, d_sel, d_out,  \* a stand-alone call of _detect_search_box
    t_pc, t_buttons, t_enter, t_sel, t_out,
                      \* a stand-alone call of _click_search_button
    c_inv,            \* two concurrent invocations: the locals of each
    c_warnings,       \* the warnings list of each (line 58)
    c_errors,         \* the errors list of each (line 59)
    c_own,            \* what each has itself appended and extracted
    f_pc, f_tree, f_out, f_twin_out,
                      \* calls of the two format_node on a tree and on its twin
    p_pc, p_query, p_max, p_allow, p_out,
                      \* a call of evaluate_invoke_policy
    k_cache, k_reqs, k_clock, k_resp, k_evict, k_last,
                      \* _playwright_cache and the snapshot requests
    i_inv, i_tasks, i_recent, i_now, i_started,
                      \* the invocations of /mcp/invoke and the state store
    i_hist,           \* what has happened to each task_id so far
    r_recent, r_max, r_added, r_clock, r_listed,
                      \* InMemoryStateStore._recent and the calls on it
    q_list, q_procs, q_max, q_calls,
                      \* the Redis list recent_tasks and the processes
                      \* that call add_recent on it
    g_config, g_pc, g_request, g_evaluated, g_response, g_effects
                      \* a request on its way through the policy middleware

navvars == <<pc, args, caller, made, closes, leaked, calls, warnings, errors,
             search_performed, snapshot, extractions, search_box,
             button_clicked, activation, waits, exc, result, outcome, attempts>>
detvars == <<d_pc, d_dom, d_sel, d_out>>
trigvars == <<t_pc, t_buttons, t_enter, t_sel, t_out>>
pairvars == <<c_inv, c_warnings, c_errors, c_own>>
fmtvars == <<f_pc, f_tree, f_out, f_twin_out>>
polvars == <<p_pc, p_query, p_max, p_allow, p_out>>
cachevars == <<k_cache, k_reqs, k_clock, k_resp, k_evict, k_last>>
invvars == <<i_inv, i_tasks, i_recent, i_now, i_started, i_hist>>
recentvars == <<r_recent, r_max, r_added, r_clock, r_listed>>
redisvars == <<q_list, q_procs, q_max, q_calls>>
gatevars == <<g_config, g_pc, g_request, g_evaluated, g_response, g_effects>>
morevars == <<fmtvars, polvars, cachevars, invvars, recentvars, redisvars,
              gatevars>>
alonevars == <<detvars, trigvars, pairvars, morevars>>
vars == <<navvars, alonevars>>

\* ------------------------------------------------------------- messages
NavigationErrorMsg == "Navigation error"
BrowserNavigateErrorMsg == "Error in browser_navigate"
ExplicitSelectorMsg == "Explicit selector not found"
SearchBoxNotFoundMsg == "Search box not found - cannot perform automatic search"
ErrorPerformingSearchMsg == "Error performing search"
SearchButtonNotFoundMsg == "Search button not found - search may not have been triggered"
ExplicitButtonMsg == "Explicit button selector not found"
EnterFailedMsg == "Failed to press Enter in search box"

\* ------------------------------------------------------------ arguments
Handles == {"browser", "context", "page"}
Kinds == {"playwright", "browser", "context", "page"}
Url == "https://example.com"
BoxSelector == "#box"
ButtonSelector == "#btn"

Arguments ==
    [browser : BOOLEAN, context : BOOLEAN, page : BOOLEAN,
     search_query : {"None", "", "shoes"}, auto_search : BOOLEAN,
     search_box_selector : {"None", BoxSelector},
     search_button_selector : {"None", ButtonSelector},
     wait_for_results : BOOLEAN]

Supplied(a) == {h \in Handles : a[h]}

\* Python truthiness of a string argument.
Truthy(s) == s \notin {"None", ""}

\* A variant of the test below that does not look at auto_search.
should_search_any_query(a) == Truthy(a.search_query)

\* should_search = search_query and auto_search
should_search(a) == Truthy(a.search_query) /\ a.auto_search

\* search_query if should_search else None
ResultQuery(a) == IF should_search(a) THEN a.search_query ELSE "None"

NoArgs ==
    [browser |-> FALSE, context |-> FALSE, page |-> FALSE,
     search_query |-> "None", auto_search |-> TRUE,
     search_box_selector |-> "None", search_button_selector |-> "None",
     wait_for_results |-> TRUE]

\* ------------------------------------------------------------- snapshots
EmptySnapshot == [text |-> "", at |-> 0]

SnapshotTexts ==
    {"<formatted tree>", "No accessibility tree available", "<body text>",
     "Could not generate snapshot", "Error generating snapshot"}

\* What the page answers to one extraction: page.accessibility.snapshot()
\* gives a tree, gives nothing, or raises; the fallback page.evaluate gives
\* text, gives the empty string, or raises.
SnapshotEnvs == [a11y : {"tree", "null", "raise"}, body : {"text", "empty", "raise"}]

_generate_accessibility_snapshot_bare_body(env) ==
    CASE env.a11y = "tree" -> "<formatted tree>"
      [] env.a11y = "null" -> "No accessibility tree available"
      [] env.a11y = "raise" /\ env.body = "text" -> "<body text>"
      [] env.a11y = "raise" /\ env.body = "empty" -> ""
      [] OTHER -> "Error generating snapshot"

_generate_accessibility_snapshot(env) ==
    CASE env.a11y = "tree" -> "<formatted tree>"
      [] env.a11y = "null" -> "No accessibility tree available"
      [] env.a11y = "raise" /\ env.body = "text" -> "<body text>"
      [] env.a11y = "raise" /\ env.body = "empty" -> "Could not generate snapshot"
      [] OTHER -> "Error generating snapshot"

\* --------------------------------------------------------------- results
NoResult ==
    [success |-> FALSE, url |-> "", search_performed |-> FALSE,
     search_query |-> "None", snapshot |-> EmptySnapshot,
     warnings |-> <<>>, errors |-> <<>>]

\* lines 225-233
SuccessResult(a, sp, snap, w, e) ==
    [success |-> TRUE, url |-> Url, search_performed |-> sp,
     search_query |-> ResultQuery(a), snapshot |-> snap,
     warnings |-> w, errors |-> e]

\* lines 132-140
FailureResult(a, w, e) ==
    [success |-> FALSE, url |-> Url, search_performed |-> FALSE,
     search_query |-> ResultQuery(a), snapshot |-> EmptySnapshot,
     warnings |-> w, errors |-> e]

\* ------------------------------------------------- search-box detection
\* The page as the detector sees it: the elements that match one of the
\* detector's selectors, in document order.  An element is "visible",
\* "hidden", "broken" (probing it raises, e.g. it was detached) or "stale"
\* (is_visible answers true, a later evaluate on it raises).
RoleSelector == "[role=\"searchbox\"]"

\* lines 271-279
selectors ==
    << "input[type=\"search\"]",
       "input[placeholder*=\"search\" i]",
       "input[placeholder*=\"Search\" i]",
       "input[name*=\"search\" i]",
       "input[id*=\"search\" i]",
       "input[aria-label*=\"search\" i]",
       "input[aria-label*=\"Search\" i]" >>

\* lines 294-301
contextual_selectors ==
    << "input[placeholder*=\"Search events\" i]",
       "input[placeholder*=\"Find tickets\" i]",
       "input[placeholder*=\"Search artists\" i]",
       "input[placeholder*=\"Search for\" i]",
       "input[name*=\"q\" i]",
       "input[id*=\"q\" i]" >>

\* The selectors an element of a modelled page may match: the explicit
\* one, the role selector, the first and last common pattern and one
\* contextual pattern.
PageSelectors ==
    {BoxSelector, RoleSelector, selectors[1],
     selectors[Len(selectors)], contextual_selectors[5]}

ElementStates == {"visible", "hidden", "broken", "stale"}
Tags == {"INPUT", "TEXTAREA", "DIV"}

Elements ==
    [matches : PageSelectors, state : {"visible"}, tag : Tags]
    \cup [matches : PageSelectors, state : ElementStates \ {"visible"}, tag : {"INPUT"}]

RECURSIVE SeqsUpTo(_, _)
SeqsUpTo(S, n) ==
    IF n = 0 THEN {<<>>}
    ELSE LET shorter == SeqsUpTo(S, n - 1)
         IN  shorter \cup {Append(q, x) : q \in {r \in shorter : Len(r) = n - 1}, x \in S}

Doms == SeqsUpTo(Elements, MaxElems)

NoElement == [matches |-> "None", state |-> "absent", tag |-> "None"]

\* page.locator(selector).first
RECURSIVE FirstFrom(_, _, _)
FirstFrom(dom, selector, i) ==
    IF i > Len(dom) THEN NoElement
    ELSE IF dom[i].matches = selector THEN dom[i]
    ELSE FirstFrom(dom, selector, i + 1)

First(dom, selector) == FirstFrom(dom, selector, 1)

\* await locator.is_visible(): TRUE, FALSE or "raise"
IsVisible(el) ==
    CASE el.state \in {"visible", "stale"} -> "true"
      [] el.state = "broken" -> "raise"
      [] OTHER -> "false"

\* await locator.evaluate("el => el.tagName"): the tag or "raise"
TagName(el) == IF el.state = "stale" THEN "raise" ELSE el.tag

\* tag_name.upper() in ['INPUT', 'TEXTAREA']
IsInputTag(tag) == tag \in {"INPUT", "TEXTAREA"}

\* A variant of the iteration below without the tag verification.
ProbePatternUnverified(dom, selector) ==
    IF IsVisible(First(dom, selector)) = "true" THEN "hit" ELSE "continue"

\* One iteration of the loops of lines 281-291 and 303-312:
\* "hit" (return the locator) or "continue".
ProbePattern(dom, selector) ==
    LET el == First(dom, selector)
    IN  IF IsVisible(el) = "true"
        THEN IF TagName(el) # "raise" /\ IsInputTag(TagName(el))
             THEN "hit" ELSE "continue"
        ELSE "continue"

\* The loops of lines 281-291 and 303-312 over sels[i..]:
\* the selector returned ("None" if the loop ends) and the selectors probed.
RECURSIVE ScanPatterns(_, _, _)
ScanPatterns(dom, sels, i) ==
    IF i > Len(sels) THEN [box |-> "None", probes |-> <<>>]
    ELSE IF ProbePattern(dom, sels[i]) = "hit"
         THEN [box |-> sels[i], probes |-> <<sels[i]>>]
         ELSE LET rest == ScanPatterns(dom, sels, i + 1)
              IN  [box |-> rest.box, probes |-> <<sels[i]>> \o rest.probes]

\* Priority 3 and 4, lines 270-315.
DetectByPatterns(dom) ==
    LET common == ScanPatterns(dom, selectors, 1)
        contextual == ScanPatterns(dom, contextual_selectors, 1)
    IN  IF common.box # "None" THEN common
        ELSE [box |-> contextual.box, probes |-> common.probes \o contextual.probes]

\* Priority 2 onwards, lines 261-315.
DetectFromRole(dom) ==
    LET rest == DetectByPatterns(dom)
    IN  IF IsVisible(First(dom, RoleSelector)) = "true"
        THEN [box |-> RoleSelector, probes |-> <<RoleSelector>>]
        ELSE [box |-> rest.box, probes |-> <<RoleSelector>> \o rest.probes]

\* A variant of the detector below that looks for role=searchbox before
\* the explicit selector.
_detect_search_box_role_first(dom, explicit_selector) ==
    LET rest == DetectByPatterns(dom)
        vis == IsVisible(First(dom, explicit_selector))
    IN  IF IsVisible(First(dom, RoleSelector)) = "true"
        THEN [box |-> RoleSelector, warnings |-> <<>>, probes |-> <<RoleSelector>>]
        ELSE IF ~Truthy(explicit_selector)
        THEN [box |-> rest.box, warnings |-> <<>>,
              probes |-> <<RoleSelector>> \o rest.probes]
        ELSE IF vis = "true"
        THEN [box |-> explicit_selector, warnings |-> <<>>,
              probes |-> <<RoleSelector, explicit_selector>>]
        ELSE [box |-> rest.box,
              warnings |-> IF vis = "raise" THEN <<ExplicitSelectorMsg>> ELSE <<>>,
              probes |-> <<RoleSelector, explicit_selector>> \o rest.probes]

\* _detect_search_box(page, explicit_selector, snapshot, warnings): the
\* locator returned, the warnings it appended and the selectors it probed,
\* in the order it probed them.
_detect_search_box(dom, explicit_selector) ==
    LET rest == DetectFromRole(dom)
        vis == IsVisible(First(dom, explicit_selector))
    IN  IF ~Truthy(explicit_selector)
        THEN [box |-> rest.box, warnings |-> <<>>, probes |-> rest.probes]
        ELSE IF vis = "true"
        THEN [box |-> explicit_selector, warnings |-> <<>>,
              probes |-> <<explicit_selector>>]
        ELSE [box |-> rest.box,
              warnings |-> IF vis = "raise" THEN <<ExplicitSelectorMsg>> ELSE <<>>,
              probes |-> <<explicit_selector>> \o rest.probes]

\* What a call of the detector can give the orchestrator on the modelled
\* pages.  The orchestrator tests the returned Locator for None (line 183)
\* and hands it to fill and to the invoker; which selector it was built
\* from plays no part there, so a returned Locator is "Locator".
DetectOutcomes ==
    [s \in {"None", BoxSelector} |->
        {[box |-> IF r.box = "None" THEN "None" ELSE "Locator",
          warnings |-> r.warnings] :
            r \in {_detect_search_box(dom, s) : dom \in Doms}}]

\* --------------------------------------------------- search trigger
\* The buttons of the page in document order.  A button is what one of the
\* invoker's locators finds: the explicit selector, the submit control of
\* the search box's ancestor form, an aria-label match, or a button with an
\* accessible name.  It is "visible", "hidden", "broken" (probing it
\* raises) or "unclickable" (visible, but click raises).
FormSubmitLocator == "button[type=\"submit\"], input[type=\"submit\"]"
AriaLabelLocator == "button[aria-label*=\"search\" i], button[aria-label*=\"Search\" i], button[aria-label*=\"submit\" i]"

\* for btn in buttons[:10] (line 385)
ScanLimit == 10

\* line 373
text_patterns == <<"Search", "search", "Go", "Submit", "Find">>

LowerCase(s) ==
    CASE s \in {"Search", "search"} -> "search"
      [] s \in {"Go", "go"} -> "go"
      [] s \in {"Submit", "submit"} -> "submit"
      [] s \in {"Find", "find"} -> "find"
      [] OTHER -> s

ButtonStates == {"visible", "hidden", "broken", "unclickable"}

\* name is the accessible name get_by_role matches, text the inner text
\* the raw scan reads; the last button is named by an aria-label that no
\* stage looks for and has the inner text "Go".
ButtonHooks ==
    {[locator |-> ButtonSelector, name |-> "", text |-> ""],
     [locator |-> FormSubmitLocator, name |-> "", text |-> ""],
     [locator |-> AriaLabelLocator, name |-> "", text |-> ""],
     [locator |-> "button", name |-> "Search", text |-> "Search"],
     [locator |-> "button", name |-> "Find", text |-> "Find"],
     [locator |-> "button", name |-> "Lookup", text |-> "Go"]}

Buttons ==
    {[locator |-> h.locator, name |-> h.name, text |-> h.text, state |-> st] :
        h \in ButtonHooks, st \in ButtonStates}

ButtonDoms == SeqsUpTo(Buttons, MaxButtons)

NoButton == [locator |-> "None", name |-> "", text |-> "", state |-> "absent"]

\* page.locator(locator).first
RECURSIVE FirstButtonFrom(_, _, _)
FirstButtonFrom(buttons, locator, i) ==
    IF i > Len(buttons) THEN NoButton
    ELSE IF buttons[i].locator = locator THEN buttons[i]
    ELSE FirstButtonFrom(buttons, locator, i + 1)

FirstButton(buttons, locator) == FirstButtonFrom(buttons, locator, 1)

\* page.get_by_role("button", name=pattern, exact=False).first
RECURSIVE FirstNamedFrom(_, _, _)
FirstNamedFrom(buttons, pattern, i) ==
    IF i > Len(buttons) THEN NoButton
    ELSE IF buttons[i].locator = "button"
            /\ LowerCase(buttons[i].name) = LowerCase(pattern)
         THEN buttons[i]
    ELSE FirstNamedFrom(buttons, pattern, i + 1)

FirstNamed(buttons, pattern) == FirstNamedFrom(buttons, pattern, 1)

\* The body "if await button.is_visible(): await button.click(); return
\* True" of one try block: whether it returned True, whether it raised,
\* the locator it probed and the clicks it made.
TryClick(button, how) ==
    CASE button.state = "visible" ->
            [done |-> TRUE, raised |-> FALSE, probes |-> <<how>>,
             acts |-> <<[op |-> "click", target |-> how, ok |-> TRUE]>>]
      [] button.state = "unclickable" ->
            [done |-> FALSE, raised |-> TRUE, probes |-> <<how>>,
             acts |-> <<[op |-> "click", target |-> how, ok |-> FALSE]>>]
      [] button.state = "broken" ->
            [done |-> FALSE, raised |-> TRUE, probes |-> <<how>>, acts |-> <<>>]
      [] OTHER -> [done |-> FALSE, raised |-> FALSE, probes |-> <<how>>, acts |-> <<>>]

\* A variant of the Enter fallback below that reports True whether or not
\* the press completed.
PressEnterAlwaysTrue(enter) ==
    [clicked |-> TRUE,
     warnings |-> IF enter = "ok" THEN <<>> ELSE <<EnterFailedMsg>>,
     probes |-> <<>>,
     acts |-> <<[op |-> "press", target |-> "Enter", ok |-> (enter = "ok")]>>]

\* Priority 5, lines 398-405.
PressEnter(enter) ==
    IF enter = "ok"
    THEN [clicked |-> TRUE, warnings |-> <<>>, probes |-> <<>>,
          acts |-> <<[op |-> "press", target |-> "Enter", ok |-> TRUE]>>]
    ELSE [clicked |-> FALSE, warnings |-> <<EnterFailedMsg>>, probes |-> <<>>,
          acts |-> <<[op |-> "press", target |-> "Enter", ok |-> FALSE]>>]

\* A variant of the sequencing below in which a stage that clicked does
\* not end the call.
OrElseGoOn(try, w, rest) ==
    [clicked |-> try.done \/ rest.clicked,
     warnings |-> (IF try.raised THEN w ELSE <<>>) \o rest.warnings,
     probes |-> try.probes \o rest.probes,
     acts |-> try.acts \o rest.acts]

\* A stage that returned True ends the call; otherwise the call goes on
\* with the remaining stages.
OrElse(try, w, rest) ==
    IF try.done
    THEN [clicked |-> TRUE, warnings |-> <<>>, probes |-> try.probes,
          acts |-> try.acts]
    ELSE [clicked |-> rest.clicked,
          warnings |-> (IF try.raised THEN w ELSE <<>>) \o rest.warnings,
          probes |-> try.probes \o rest.probes,
          acts |-> try.acts \o rest.acts]

\* buttons = page.locator('button').all(); for btn in buttons[:10]: ...
\* (lines 384-394).  Locator.all() of the async API is a coroutine function
\* and the call is not awaited, so buttons is a coroutine object and
\* buttons[:10] raises TypeError before any button is looked at; the
\* except of line 395 absorbs it.
RawTextScan(buttons) ==
    [done |-> FALSE, raised |-> TRUE, probes |-> <<>>, acts |-> <<>>]

\* The loop of lines 374-382 over text_patterns[i..], then the raw scan.
RECURSIVE ButtonTextStage(_, _, _)
ButtonTextStage(buttons, enter, i) ==
    IF i > Len(text_patterns)
    THEN OrElse(RawTextScan(buttons), <<>>, PressEnter(enter))
    ELSE OrElse(TryClick(FirstNamed(buttons, text_patterns[i]), text_patterns[i]),
                <<>>, ButtonTextStage(buttons, enter, i + 1))

\* A variant of the aria-label stage below whose except clause appends a
\* warning.
AriaLabelStageWarns(buttons, enter) ==
    OrElse(TryClick(FirstButton(buttons, AriaLabelLocator), AriaLabelLocator),
           <<ExplicitButtonMsg>>, ButtonTextStage(buttons, enter, 1))

\* Priority 3, lines 360-368.
AriaLabelStage(buttons, enter) ==
    OrElse(TryClick(FirstButton(buttons, AriaLabelLocator), AriaLabelLocator),
           <<>>, ButtonTextStage(buttons, enter, 1))

\* Priority 2, lines 345-358: form_count > 0 exactly when the search box's
\* form holds a submit control.
FormSubmitStage(buttons, enter) ==
    OrElse(TryClick(FirstButton(buttons, FormSubmitLocator), FormSubmitLocator),
           <<>>, AriaLabelStage(buttons, enter))

\* _click_search_button(page, explicit_selector, search_box, warnings):
\* the value returned, the warnings appended, the locators probed and the
\* clicks and key presses made, in order.
_click_search_button(buttons, enter, explicit_selector) ==
    IF Truthy(explicit_selector)
    THEN OrElse(TryClick(FirstButton(buttons, explicit_selector), explicit_selector),
                <<ExplicitButtonMsg>>, FormSubmitStage(buttons, enter))
    ELSE FormSubmitStage(buttons, enter)

\* The click or key press of a call that completed, if one did.
Activation(acts) ==
    IF acts # <<>> /\ acts[Len(acts)].ok THEN acts[Len(acts)].op ELSE "none"

\* What a call of the invoker can give the orchestrator on the modelled pages.
ClickOutcomes ==
    [s \in {"None", ButtonSelector} |->
        {[clicked |-> r.clicked, warnings |-> r.warnings,
          activation |-> Activation(r.acts)] :
            r \in {_click_search_button(b, e, s) : b \in ButtonDoms, e \in {"ok", "raise"}}}]

\* ------------------------------------------------------- the orchestrator
Steps == {"goto", "detect", "fill", "trigger"}

resvars == <<caller, made, closes, leaked>>
accvars == <<warnings, errors>>
flowvars == <<search_performed, snapshot, extractions, search_box, button_clicked,
              activation, waits>>

OwnsLifecycle(a) == Supplied(a) = {}

NoTrigger == [clicked |-> FALSE, warnings |-> <<>>, probes |-> <<>>, acts |-> <<>>]

\* No stand-alone call of _click_search_button is under way.
TriggerOff ==
    /\ t_pc = "off"
    /\ t_buttons = <<>>
    /\ t_enter = "ok"
    /\ t_sel = "None"
    /\ t_out = NoTrigger

Invocations == {"A", "B"}

NoInvocation ==
    [pc |-> "off", args |-> NoArgs, search_performed |-> FALSE,
     snapshot |-> EmptySnapshot, search_box |-> "None",
     button_clicked |-> FALSE, result |-> NoResult]

NoneAppended == [warnings |-> <<>>, errors |-> <<>>, snapshots |-> <<>>]

\* No pair of concurrent invocations is under way.
PairOff ==
    /\ c_inv = [i \in Invocations |-> NoInvocation]
    /\ c_warnings = [i \in Invocations |-> <<>>]
    /\ c_errors = [i \in Invocations |-> <<>>]
    /\ c_own = [i \in Invocations |-> NoneAppended]

NoOutput == [compact |-> <<>>, rich |-> <<>>]

\* No call of format_node is under way.
FormatOff ==
    /\ f_pc = "off"
    /\ f_tree = "None"
    /\ f_out = NoOutput
    /\ f_twin_out = NoOutput

\* No call of evaluate_invoke_policy is under way.
PolicyOff ==
    /\ p_pc = "off"
    /\ p_query = [none |-> TRUE, text |-> <<>>]
    /\ p_max = 0
    /\ p_allow = <<>>
    /\ p_out = [allowed |-> FALSE, status_code |-> 0, code |-> "None",
                host |-> <<>>]

\* No snapshot request is under way or will be.
CacheOff ==
    /\ k_cache = <<>>
    /\ k_reqs = <<>>
    /\ k_clock = 0
    /\ k_resp = "off"
    /\ k_last = <<>>
    /\ k_evict = [inserted |-> 0, removed |-> 0]

\* No invocation of /mcp/invoke is under way or will be.
InvokeOff ==
    /\ i_inv = <<>>
    /\ i_tasks = <<>>
    /\ i_recent = <<>>
    /\ i_now = 0
    /\ i_started = 0
    /\ i_hist = <<>>

\* No call on the in-memory recent list is under way or will be.
RecentOff ==
    /\ r_recent = <<>>
    /\ r_max = 0
    /\ r_added = <<>>
    /\ r_clock = 0
    /\ r_listed = <<>>

\* No call on the Redis recent list is under way or will be.
RedisOff ==
    /\ q_list = <<>>
    /\ q_procs = <<>>
    /\ q_max = 0
    /\ q_calls = 0

\* No request is on its way through the policy middleware or will be.
GateOff ==
    /\ g_config = <<>>
    /\ g_pc = "off"
    /\ g_request = <<>>
    /\ g_evaluated = FALSE
    /\ g_response = <<>>
    /\ g_effects = <<>>

StoresOff == RecentOff /\ RedisOff /\ GateOff

MoreOff == FormatOff /\ PolicyOff /\ CacheOff /\ InvokeOff /\ StoresOff

\* No invocation of browser_navigate is under way or will be.
NavOff ==
    /\ pc = "off"
    /\ args = NoArgs
    /\ caller = [h \in Handles |-> "open"]
    /\ made = [k \in Kinds |-> "none"]
    /\ closes = [k \in Kinds |-> 0]
    /\ leaked = [k \in Kinds |-> 0]
    /\ calls = 0
    /\ warnings = <<>>
    /\ errors = <<>>
    /\ search_performed = FALSE
    /\ snapshot = EmptySnapshot
    /\ extractions = 0
    /\ search_box = "None"
    /\ button_clicked = FALSE
    /\ activation = "none"
    /\ waits = <<>>
    /\ exc = "none"
    /\ result = NoResult
    /\ outcome = "none"
    /\ attempts = [s \in Steps |-> 0]

\* No stand-alone call of _detect_search_box is under way.
DetectOff ==
    /\ d_pc = "off"
    /\ d_dom = <<>>
    /\ d_sel = "None"
    /\ d_out = [box |-> "None", warnings |-> <<>>, probes |-> <<>>]

Init ==
    /\ pc = "idle"
    /\ args = NoArgs
    /\ caller = [h \in Handles |-> "open"]
    /\ made = [k \in Kinds |-> "none"]
    /\ closes = [k \in Kinds |-> 0]
    /\ leaked = [k \in Kinds |-> 0]
    /\ calls = 0
    /\ warnings = <<>>
    /\ errors = <<>>
    /\ search_performed = FALSE
    /\ snapshot = EmptySnapshot
    /\ extractions = 0
    /\ search_box = "None"
    /\ button_clicked = FALSE
    /\ activation = "none"
    /\ waits = <<>>
    /\ exc = "none"
    /\ result = NoResult
    /\ outcome = "none"
    /\ attempts = [s \in Steps |-> 0]
    /\ d_pc = "off"
    /\ d_dom = <<>>
    /\ d_sel = "None"
    /\ d_out = [box |-> "None", warnings |-> <<>>, probes |-> <<>>]
    /\ TriggerOff
    /\ PairOff
    /\ MoreOff

\* An exception leaves the current frame: inside the try of line 97 it
\* first unwinds the async with block, otherwise it reaches the caller.
Propagate(e) ==
    /\ exc' = e
    /\ IF OwnsLifecycle(args)
       THEN pc' = "aexit" /\ outcome' = outcome
       ELSE pc' = "done" /\ outcome' = "raised"

\* A call of browser_navigate, lines 15-63.
Call(a) ==
    /\ pc = "idle"
    /\ calls < MaxCalls
    /\ calls' = calls + 1
    /\ args' = a
    /\ pc' = IF OwnsLifecycle(a) THEN "start_playwright" ELSE "compose_page"
    /\ UNCHANGED <<resvars, accvars, flowvars, exc, result, outcome, attempts,
                   alonevars>>

\* lines 69-72
ComposePage ==
    /\ pc = "compose_page"
    /\ \/ /\ args.page
          /\ pc' = "compose_context"
          /\ UNCHANGED <<made, exc, outcome>>
       \/ /\ ~args.page /\ ~args.context
          /\ Propagate("ValueError")
          /\ UNCHANGED made
       \/ /\ ~args.page /\ args.context
          /\ \/ /\ made' = [made EXCEPT !.page = "open"]
                /\ pc' = "compose_context"
                /\ UNCHANGED <<exc, outcome>>
             \/ /\ Propagate("Error")
                /\ UNCHANGED made
    /\ UNCHANGED <<args, caller, closes, leaked, calls, accvars, flowvars,
                   result, attempts, alonevars>>

\* lines 73-87
ComposeContext ==
    /\ pc = "compose_context"
    /\ \/ /\ args.context
          /\ pc' = "goto"
          /\ UNCHANGED <<made, exc, outcome>>
       \/ /\ ~args.context /\ ~args.browser
          /\ Propagate("ValueError")
          /\ UNCHANGED made
       \/ /\ ~args.context /\ args.browser
          /\ \/ /\ made' = [made EXCEPT !.context = "open"]
                /\ pc' = "goto"
                /\ UNCHANGED <<exc, outcome>>
             \/ /\ Propagate("Error")
                /\ UNCHANGED made
             \/ /\ made' = [made EXCEPT !.context = "open"]
                /\ Propagate("Error")
    /\ UNCHANGED <<args, caller, closes, leaked, calls, accvars, flowvars,
                   result, attempts, alonevars>>

\* line 98, entering the async with block
StartPlaywright ==
    /\ pc = "start_playwright"
    /\ \/ /\ made' = [made EXCEPT !.playwright = "open"]
          /\ pc' = "launch"
          /\ UNCHANGED exc
       \/ /\ exc' = "Error"
          /\ pc' = "except"
          /\ UNCHANGED made
    /\ UNCHANGED <<args, caller, closes, leaked, calls, accvars, flowvars,
                   result, outcome, attempts, alonevars>>

\* lines 99-106
Launch ==
    /\ pc = "launch"
    /\ \/ /\ made' = [made EXCEPT !.browser = "open"]
          /\ pc' = "new_context"
          /\ UNCHANGED <<exc, outcome>>
       \/ /\ Propagate("Error")
          /\ UNCHANGED made
    /\ UNCHANGED <<args, caller, closes, leaked, calls, accvars, flowvars,
                   result, attempts, alonevars>>

\* lines 107-119
NewContext ==
    /\ pc = "new_context"
    /\ \/ /\ made' = [made EXCEPT !.context = "open"]
          /\ pc' = "new_page"
          /\ UNCHANGED <<exc, outcome>>
       \/ /\ Propagate("Error")
          /\ UNCHANGED made
       \/ /\ made' = [made EXCEPT !.context = "open"]
          /\ Propagate("Error")
    /\ UNCHANGED <<args, caller, closes, leaked, calls, accvars, flowvars,
                   result, attempts, alonevars>>

\* line 121
NewPage ==
    /\ pc = "new_page"
    /\ \/ /\ made' = [made EXCEPT !.page = "open"]
          /\ pc' = "goto"
          /\ UNCHANGED <<exc, outcome>>
       \/ /\ Propagate("Error")
          /\ UNCHANGED made
    /\ UNCHANGED <<args, caller, closes, leaked, calls, accvars, flowvars,
                   result, attempts, alonevars>>

\* A variant of the step below that navigates again after a failure.
GotoWithRetry ==
    /\ pc = "goto"
    /\ attempts' = [attempts EXCEPT !.goto = @ + 1]
    /\ \/ /\ UNCHANGED errors
          /\ pc' = IF should_search(args) THEN "pre_snapshot" ELSE "final_snapshot"
       \/ /\ errors' = Append(errors, NavigationErrorMsg)
          /\ pc' = IF attempts.goto < 2 THEN "goto"
                   ELSE IF should_search(args) THEN "pre_snapshot" ELSE "final_snapshot"
    /\ UNCHANGED <<args, resvars, calls, warnings, flowvars, exc, result,
                   outcome, alonevars>>

\* A variant of the step below in which a failed navigation ends the
\* search before it starts.
GotoAbortsSearch ==
    /\ pc = "goto"
    /\ attempts' = [attempts EXCEPT !.goto = @ + 1]
    /\ \/ /\ UNCHANGED errors
          /\ pc' = IF should_search(args) THEN "pre_snapshot" ELSE "final_snapshot"
       \/ /\ errors' = Append(errors, NavigationErrorMsg)
          /\ pc' = "final_snapshot"
    /\ UNCHANGED <<args, resvars, calls, warnings, flowvars, exc, result,
                   outcome, alonevars>>

\* Step 1, lines 160-169: page.goto and the settle delay; either raising is
\* recorded in errors and the flow goes on.
Goto ==
    /\ pc = "goto"
    /\ attempts' = [attempts EXCEPT !.goto = @ + 1]
    /\ \/ UNCHANGED errors
       \/ errors' = Append(errors, NavigationErrorMsg)
    /\ pc' = IF should_search(args) THEN "pre_snapshot" ELSE "final_snapshot"
    /\ UNCHANGED <<args, resvars, calls, warnings, flowvars, exc, result,
                   outcome, alonevars>>

\* snapshot = await _generate_accessibility_snapshot(page)
Extract(env) ==
    /\ extractions' = extractions + 1
    /\ snapshot' = [text |-> _generate_accessibility_snapshot(env), at |-> extractions + 1]

\* Step 2, lines 173-176
PreSnapshot ==
    /\ pc = "pre_snapshot"
    /\ \E env \in SnapshotEnvs : Extract(env)
    /\ pc' = "detect"
    /\ UNCHANGED <<args, resvars, calls, accvars, search_performed, search_box,
                   button_clicked, activation, waits, exc, result, outcome, attempts,
                   alonevars>>

\* A variant of the else branch below that records nothing.
SearchBoxMissedSilently(w) == w

\* The else branch of lines 216-219.
SearchBoxMissed(w) == Append(w, SearchBoxNotFoundMsg)

\* Step 3, lines 178-183 and 216-219: the detector runs on the page; without
\* a search box the miss is recorded.
Detect ==
    /\ pc = "detect"
    /\ attempts' = [attempts EXCEPT !.detect = @ + 1]
    /\ \E r \in DetectOutcomes[args.search_box_selector] :
          /\ search_box' = r.box
          /\ IF r.box # "None"
             THEN /\ warnings' = warnings \o r.warnings
                  /\ pc' = "fill"
             ELSE /\ warnings' = SearchBoxMissed(warnings \o r.warnings)
                  /\ pc' = "final_snapshot"
    /\ UNCHANGED <<args, resvars, calls, errors, search_performed, snapshot,
                   extractions, button_clicked, activation, waits, exc, result, outcome,
                   alonevars>>

\* A variant of the handler below that lets the exception leave
\* _execute_navigate.
SearchErrorUncaught ==
    /\ Propagate("Error")
    /\ UNCHANGED accvars

\* A variant of the handler below that files the failure under errors.
SearchErrorAsError ==
    /\ errors' = Append(errors, ErrorPerformingSearchMsg)
    /\ pc' = "final_snapshot"
    /\ UNCHANGED <<warnings, exc, outcome>>

\* The except of lines 211-215.
SearchErrorHandler ==
    /\ warnings' = Append(warnings, ErrorPerformingSearchMsg)
    /\ pc' = "final_snapshot"
    /\ UNCHANGED <<errors, exc, outcome>>

\* A variant of the step below that goes on to the trigger after a fill
\* that raised.
FillThenTriggerAnyway ==
    /\ pc = "fill"
    /\ attempts' = [attempts EXCEPT !.fill = @ + 1]
    /\ \/ UNCHANGED warnings
       \/ warnings' = Append(warnings, ErrorPerformingSearchMsg)
    /\ pc' = "trigger"
    /\ UNCHANGED <<args, resvars, calls, errors, flowvars, exc, outcome, result,
                   alonevars>>

\* Step 4, lines 184-188: fill and the input delay.
Fill ==
    /\ pc = "fill"
    /\ attempts' = [attempts EXCEPT !.fill = @ + 1]
    /\ \/ /\ pc' = "trigger"
          /\ UNCHANGED <<accvars, exc, outcome>>
       \/ SearchErrorHandler
    /\ UNCHANGED <<args, resvars, calls, flowvars, result, alonevars>>

\* A variant of the test below that is always true.
AlwaysProceeds(clicked, a) == TRUE

\* if button_clicked or not search_button_selector (line 195)
ProceedsToWait(clicked, a) == clicked \/ ~Truthy(a.search_button_selector)

\* Step 5, lines 190-195 and 209-210: the invoker runs; the flow waits for
\* results, or records that no button was found.
Trigger ==
    /\ pc = "trigger"
    /\ attempts' = [attempts EXCEPT !.trigger = @ + 1]
    /\ \E r \in ClickOutcomes[args.search_button_selector] :
          /\ button_clicked' = r.clicked
          /\ activation' = r.activation
          /\ IF ProceedsToWait(r.clicked, args)
             THEN /\ warnings' = warnings \o r.warnings
                  /\ pc' = "wait"
             ELSE /\ warnings' = Append(warnings \o r.warnings, SearchButtonNotFoundMsg)
                  /\ pc' = "final_snapshot"
    /\ UNCHANGED <<args, resvars, calls, errors, search_performed, snapshot,
                   extractions, search_box, waits, exc, result, outcome,
                   alonevars>>

\* A variant of the choice below that always waits for network idle.
FirstWaitAlwaysIdle(a) == "networkidle"

\* lines 199-202: wait_for_load_state("networkidle") if wait_for_results,
\* else wait_for_timeout(3000).
FirstWait(a) == IF a.wait_for_results THEN "networkidle" ELSE "delay"

\* lines 196-208: the wait for results (for network idle if
\* wait_for_results, else the fixed delay), the fixed delay if it raises,
\* and search_performed = True; a raising fixed delay in the except of
\* line 203 reaches the except of line 211.
Wait ==
    /\ pc = "wait"
    /\ LET op == FirstWait(args)
       IN  \/ /\ waits' = <<[op |-> op, ok |-> TRUE]>>
              /\ search_performed' = TRUE
              /\ pc' = "final_snapshot"
              /\ UNCHANGED <<accvars, exc, outcome>>
           \/ /\ waits' = <<[op |-> op, ok |-> FALSE], [op |-> "delay", ok |-> TRUE]>>
              /\ search_performed' = TRUE
              /\ pc' = "final_snapshot"
              /\ UNCHANGED <<accvars, exc, outcome>>
           \/ /\ waits' = <<[op |-> op, ok |-> FALSE], [op |-> "delay", ok |-> FALSE]>>
              /\ SearchErrorHandler
              /\ UNCHANGED search_performed
    /\ UNCHANGED <<args, resvars, calls, snapshot, extractions,
                   search_box, button_clicked, activation, result, attempts,
                   alonevars>>

\* A variant of the branch below that closes what the caller passed.
CloseProvided(c, a) == [h \in Handles |-> IF a[h] THEN "closed" ELSE c[h]]

\* "Use provided instances - don't manage lifecycle" (line 68): the branch
\* of lines 67-94 returns without closing any handle the caller passed.
KeepProvided(c, a) == c

\* A variant of the test below that always extracts again.
AlwaysFreshSnapshot(snap, performed) == TRUE

\* A variant of the test below that keeps a snapshot once there is one.
FreshOnlyIfEmpty(snap, performed) == snap.text = ""

\* if not snapshot or search_performed (line 222)
NeedsFreshSnapshot(snap, performed) == snap.text = "" \/ performed

\* Step 6 and the return, lines 221-233, returning through lines 90-94 or
\* 123-127.
FinalSnapshot ==
    /\ pc = "final_snapshot"
    /\ IF NeedsFreshSnapshot(snapshot, search_performed)
       THEN \E env \in SnapshotEnvs : Extract(env)
       ELSE UNCHANGED <<snapshot, extractions>>
    /\ result' = SuccessResult(args, search_performed, snapshot', warnings, errors)
    /\ IF OwnsLifecycle(args)
       THEN pc' = "aexit" /\ outcome' = outcome
       ELSE pc' = "done" /\ outcome' = "returned"
    /\ caller' = IF OwnsLifecycle(args) THEN caller ELSE KeepProvided(caller, args)
    /\ UNCHANGED <<args, made, closes, leaked, calls, accvars, search_performed,
                   search_box, button_clicked, activation, waits, exc, attempts,
                   alonevars>>

\* A variant of the exit below that stops the driver object alone.
StopDriverOnly(m) == [m EXCEPT !.playwright = "closed"]

\* Leaving the async with block of line 98 stops the Playwright driver,
\* which takes down the browser it launched with its contexts and pages.
StopPlaywright(m) == [k \in Kinds |-> IF m[k] = "open" THEN "closed" ELSE m[k]]

ExitPlaywright ==
    /\ pc = "aexit"
    /\ made' = StopPlaywright(made)
    /\ closes' = [k \in Kinds |-> closes[k] + IF made'[k] # made[k] THEN 1 ELSE 0]
    /\ IF exc = "none"
       THEN pc' = "done" /\ outcome' = "returned"
       ELSE pc' = "except" /\ outcome' = outcome
    /\ UNCHANGED <<args, caller, leaked, calls, accvars, flowvars, exc, result,
                   attempts, alonevars>>

\* lines 128-140
HandleError ==
    /\ pc = "except"
    /\ errors' = Append(errors, BrowserNavigateErrorMsg)
    /\ result' = FailureResult(args, warnings, errors')
    /\ exc' = "none"
    /\ pc' = "done"
    /\ outcome' = "returned"
    /\ UNCHANGED <<args, resvars, calls, warnings, flowvars, attempts, alonevars>>

\* The caller takes the result (or the exception) and the invocation's
\* locals are gone; what the invocation created and left open stays open.
Finish ==
    /\ pc = "done"
    /\ pc' = "idle"
    /\ args' = NoArgs
    /\ leaked' = [k \in Kinds |-> leaked[k] + IF made[k] = "open" THEN 1 ELSE 0]
    /\ made' = [k \in Kinds |-> "none"]
    /\ closes' = [k \in Kinds |-> 0]
    /\ warnings' = <<>>
    /\ errors' = <<>>
    /\ search_performed' = FALSE
    /\ snapshot' = EmptySnapshot
    /\ extractions' = 0
    /\ search_box' = "None"
    /\ button_clicked' = FALSE
    /\ activation' = "none"
    /\ waits' = <<>>
    /\ exc' = "none"
    /\ result' = NoResult
    /\ outcome' = "none"
    /\ attempts' = [s \in Steps |-> 0]
    /\ UNCHANGED <<caller, calls, alonevars>>

Next ==
    \/ \E a \in Arguments : Call(a)
    \/ ComposePage
    \/ ComposeContext
    \/ StartPlaywright
    \/ Launch
    \/ NewContext
    \/ NewPage
    \/ Goto
    \/ PreSnapshot
    \/ Detect
    \/ Fill
    \/ Trigger
    \/ Wait
    \/ FinalSnapshot
    \/ ExitPlaywright
    \/ HandleError
    \/ Finish

Spec == Init /\ [][Next]_vars

\* Every step of an invocation is an awaited operation that returns or
\* raises; only the arrival of a new call is up to the caller.
Step ==
    \/ ComposePage \/ ComposeContext \/ StartPlaywright \/ Launch
    \/ NewContext \/ NewPage \/ Goto \/ PreSnapshot \/ Detect \/ Fill
    \/ Trigger \/ Wait \/ FinalSnapshot \/ ExitPlaywright \/ HandleError

FairSpec == Spec /\ WF_vars(Step)

\* ------------------------------------- the detector called on its own
DetectInit ==
    /\ pc = "off"
    /\ args = NoArgs
    /\ caller = [h \in Handles |-> "open"]
    /\ made = [k \in Kinds |-> "none"]
    /\ closes = [k \in Kinds |-> 0]
    /\ leaked = [k \in Kinds |-> 0]
    /\ calls = 0
    /\ warnings = <<>>
    /\ errors = <<>>
    /\ search_performed = FALSE
    /\ snapshot = EmptySnapshot
    /\ extractions = 0
    /\ search_box = "None"
    /\ button_clicked = FALSE
    /\ activation = "none"
    /\ waits = <<>>
    /\ exc = "none"
    /\ result = NoResult
    /\ outcome = "none"
    /\ attempts = [s \in Steps |-> 0]
    /\ d_pc = "call"
    /\ d_dom \in Doms
    /\ d_sel \in {"None", BoxSelector}
    /\ d_out = [box |-> "None", warnings |-> <<>>, probes |-> <<>>]
    /\ TriggerOff
    /\ PairOff
    /\ MoreOff

\* await _detect_search_box(page, explicit_selector, snapshot, warnings)
DetectCall ==
    /\ d_pc = "call"
    /\ d_out' = _detect_search_box(d_dom, d_sel)
    /\ d_pc' = "returned"
    /\ UNCHANGED <<navvars, d_dom, d_sel, trigvars, pairvars, morevars>>

DetectNext == DetectCall

SpecDetect == DetectInit /\ [][DetectNext]_vars

\* ------------------------------------- the search trigger on its own
\* A call of _click_search_button on any modelled page, with or without
\* an explicit button selector, with an Enter press that completes or
\* raises.
TriggerInit ==
    /\ pc = "off"
    /\ args = NoArgs
    /\ caller = [h \in Handles |-> "open"]
    /\ made = [k \in Kinds |-> "none"]
    /\ closes = [k \in Kinds |-> 0]
    /\ leaked = [k \in Kinds |-> 0]
    /\ calls = 0
    /\ warnings = <<>>
    /\ errors = <<>>
    /\ search_performed = FALSE
    /\ snapshot = EmptySnapshot
    /\ extractions = 0
    /\ search_box = "None"
    /\ button_clicked = FALSE
    /\ activation = "none"
    /\ waits = <<>>
    /\ exc = "none"
    /\ result = NoResult
    /\ outcome = "none"
    /\ attempts = [s \in Steps |-> 0]
    /\ d_pc = "off"
    /\ d_dom = <<>>
    /\ d_sel = "None"
    /\ d_out = [box |-> "None", warnings |-> <<>>, probes |-> <<>>]
    /\ t_pc = "call"
    /\ t_buttons \in ButtonDoms
    /\ t_enter \in {"ok", "raise"}
    /\ t_sel \in {"None", ButtonSelector}
    /\ t_out = NoTrigger
    /\ PairOff
    /\ MoreOff

\* await _click_search_button(page, explicit_selector, search_box, warnings)
TriggerCall ==
    /\ t_pc = "call"
    /\ t_out' = _click_search_button(t_buttons, t_enter, t_sel)
    /\ t_pc' = "returned"
    /\ UNCHANGED <<navvars, detvars, t_buttons, t_enter, t_sel, pairvars, morevars>>

TriggerNext == TriggerCall

SpecTrigger == TriggerInit /\ [][TriggerNext]_vars

\* ------------------------------------------ two concurrent invocations
\* Two invocations of browser_navigate that are given no browser, context
\* or page run concurrently: each awaited operation of one is a step, and
\* the steps of the two interleave in any order.  Each invocation has its
\* own locals, its own lists (lines 58-59) and the page it launched itself
\* (lines 98-112).
PairArguments ==
    {a \in Arguments :
        /\ Supplied(a) = {}
        /\ a.auto_search /\ a.wait_for_results
        /\ a.search_query \in {"None", "shoes"}
        /\ Truthy(a.search_box_selector) = Truthy(a.search_button_selector)
        /\ Truthy(a.search_query) = Truthy(a.search_box_selector)}

\* A variant of the lists below in which the invocations append to one
\* list.
AppendShared(lists, i, msgs) == [j \in DOMAIN lists |-> lists[j] \o msgs]

\* warnings.append / errors.append on the list the invocation made for
\* itself at lines 58-59.
AppendTo(lists, i, msgs) == [lists EXCEPT ![i] = @ \o msgs]

Warn(i, msgs) ==
    /\ c_warnings' = AppendTo(c_warnings, i, msgs)
    /\ c_own' = [c_own EXCEPT ![i].warnings = @ \o msgs]
    /\ UNCHANGED c_errors

Err(i, msgs) ==
    /\ c_errors' = AppendTo(c_errors, i, msgs)
    /\ c_own' = [c_own EXCEPT ![i].errors = @ \o msgs]
    /\ UNCHANGED c_warnings

\* The locals of invocation i become loc.
Locals(i, loc) == c_inv' = [c_inv EXCEPT ![i] = loc]

\* A snapshot extracted from the page of invocation i.
PageSnapshot(i, env) == [text |-> _generate_accessibility_snapshot(env), page |-> i]

PairInit ==
    /\ pc = "off"
    /\ args = NoArgs
    /\ caller = [h \in Handles |-> "open"]
    /\ made = [k \in Kinds |-> "none"]
    /\ closes = [k \in Kinds |-> 0]
    /\ leaked = [k \in Kinds |-> 0]
    /\ calls = 0
    /\ warnings = <<>>
    /\ errors = <<>>
    /\ search_performed = FALSE
    /\ snapshot = EmptySnapshot
    /\ extractions = 0
    /\ search_box = "None"
    /\ button_clicked = FALSE
    /\ activation = "none"
    /\ waits = <<>>
    /\ exc = "none"
    /\ result = NoResult
    /\ outcome = "none"
    /\ attempts = [s \in Steps |-> 0]
    /\ d_pc = "off"
    /\ d_dom = <<>>
    /\ d_sel = "None"
    /\ d_out = [box |-> "None", warnings |-> <<>>, probes |-> <<>>]
    /\ TriggerOff
    /\ c_inv \in [Invocations -> {[NoInvocation EXCEPT !.pc = "launch", !.args = a] :
                                    a \in PairArguments}]
    /\ c_warnings = [i \in Invocations |-> <<>>]
    /\ c_errors = [i \in Invocations |-> <<>>]
    /\ c_own = [i \in Invocations |-> NoneAppended]
    /\ MoreOff

\* lines 96-140: the invocation launches its own browser, context and
\* page, or the launch raises and the failure result is returned.
PairLaunch(i) ==
    /\ c_inv[i].pc = "launch"
    /\ \/ /\ Locals(i, [c_inv[i] EXCEPT !.pc = "goto"])
          /\ UNCHANGED <<c_warnings, c_errors, c_own>>
       \/ /\ Err(i, <<BrowserNavigateErrorMsg>>)
          /\ Locals(i, [c_inv[i] EXCEPT
                          !.pc = "done",
                          !.result = FailureResult(c_inv[i].args, c_warnings'[i],
                                                   c_errors'[i])])
    /\ UNCHANGED <<navvars, detvars, trigvars,
                   morevars>>

\* lines 160-169
PairGoto(i) ==
    /\ c_inv[i].pc = "goto"
    /\ \/ UNCHANGED <<c_warnings, c_errors, c_own>>
       \/ Err(i, <<NavigationErrorMsg>>)
    /\ Locals(i, [c_inv[i] EXCEPT
                    !.pc = IF should_search(c_inv[i].args)
                           THEN "pre_snapshot" ELSE "final_snapshot"])
    /\ UNCHANGED <<navvars, detvars, trigvars,
                   morevars>>

\* lines 173-176
PairPreSnapshot(i) ==
    /\ c_inv[i].pc = "pre_snapshot"
    /\ \E env \in SnapshotEnvs :
          /\ Locals(i, [c_inv[i] EXCEPT !.pc = "detect",
                                        !.snapshot = PageSnapshot(i, env)])
          /\ c_own' = [c_own EXCEPT ![i].snapshots = Append(@, PageSnapshot(i, env))]
    /\ UNCHANGED <<c_warnings, c_errors, navvars, detvars, trigvars,
                   morevars>>

\* lines 178-183 and 216-219
PairDetect(i) ==
    /\ c_inv[i].pc = "detect"
    /\ \E r \in DetectOutcomes[c_inv[i].args.search_box_selector] :
          /\ Locals(i, [c_inv[i] EXCEPT
                          !.search_box = r.box,
                          !.pc = IF r.box # "None" THEN "fill" ELSE "final_snapshot"])
          /\ Warn(i, IF r.box # "None" THEN r.warnings
                     ELSE SearchBoxMissed(r.warnings))
    /\ UNCHANGED <<navvars, detvars, trigvars,
                   morevars>>

\* lines 184-188 and 211-215
PairFill(i) ==
    /\ c_inv[i].pc = "fill"
    /\ \/ /\ Locals(i, [c_inv[i] EXCEPT !.pc = "trigger"])
          /\ UNCHANGED <<c_warnings, c_errors, c_own>>
       \/ /\ Locals(i, [c_inv[i] EXCEPT !.pc = "final_snapshot"])
          /\ Warn(i, <<ErrorPerformingSearchMsg>>)
    /\ UNCHANGED <<navvars, detvars, trigvars,
                   morevars>>

\* lines 190-195 and 209-210
PairTrigger(i) ==
    /\ c_inv[i].pc = "trigger"
    /\ \E r \in ClickOutcomes[c_inv[i].args.search_button_selector] :
          /\ Locals(i, [c_inv[i] EXCEPT
                          !.button_clicked = r.clicked,
                          !.pc = IF ProceedsToWait(r.clicked, c_inv[i].args)
                                 THEN "wait" ELSE "final_snapshot"])
          /\ Warn(i, IF ProceedsToWait(r.clicked, c_inv[i].args)
                     THEN r.warnings
                     ELSE Append(r.warnings, SearchButtonNotFoundMsg))
    /\ UNCHANGED <<navvars, detvars, trigvars,
                   morevars>>

\* lines 196-208 and 211-215
PairWait(i) ==
    /\ c_inv[i].pc = "wait"
    /\ \/ /\ Locals(i, [c_inv[i] EXCEPT !.pc = "final_snapshot",
                                        !.search_performed = TRUE])
          /\ UNCHANGED <<c_warnings, c_errors, c_own>>
       \/ /\ Locals(i, [c_inv[i] EXCEPT !.pc = "final_snapshot"])
          /\ Warn(i, <<ErrorPerformingSearchMsg>>)
    /\ UNCHANGED <<navvars, detvars, trigvars,
                   morevars>>

\* lines 221-233 and the return through lines 123-127
PairFinalSnapshot(i) ==
    /\ c_inv[i].pc = "final_snapshot"
    /\ LET loc == c_inv[i]
       IN  IF NeedsFreshSnapshot(loc.snapshot, loc.search_performed)
           THEN \E env \in SnapshotEnvs :
                   /\ Locals(i, [loc EXCEPT
                                   !.pc = "done",
                                   !.snapshot = PageSnapshot(i, env),
                                   !.result = SuccessResult(loc.args, loc.search_performed,
                                                 PageSnapshot(i, env),
                                                 c_warnings[i], c_errors[i])])
                   /\ c_own' = [c_own EXCEPT
                                  ![i].snapshots = Append(@, PageSnapshot(i, env))]
           ELSE /\ Locals(i, [loc EXCEPT
                                !.pc = "done",
                                !.result = SuccessResult(loc.args, loc.search_performed,
                                              loc.snapshot, c_warnings[i], c_errors[i])])
                /\ UNCHANGED c_own
    /\ UNCHANGED <<c_warnings, c_errors, navvars, detvars, trigvars,
                   morevars>>

PairNext ==
    \E i \in Invocations :
        \/ PairLaunch(i)
        \/ PairGoto(i)
        \/ PairPreSnapshot(i)
        \/ PairDetect(i)
        \/ PairFill(i)
        \/ PairTrigger(i)
        \/ PairWait(i)
        \/ PairFinalSnapshot(i)

SpecPair == PairInit /\ [][PairNext]_vars

\* ------------------------------------------------- the tree formatters
\* "  " * indent: the width of one level of indentation
IndentWidth == 2

\* A node of the accessibility tree is a dict.  A key that the dict does
\* not hold reads "None"; keys is the order in which the dict holds its
\* keys other than children; children is <<>> where the key is absent.
EmptyNode ==
    [role |-> "None", name |-> "None", description |-> "None",
     value |-> "None", checked |-> "None", selected |-> "None",
     keys |-> <<>>, children |-> <<>>]

NodeLabels ==
    {EmptyNode,
     [EmptyNode EXCEPT !.role = "button", !.keys = <<"role">>],
     [EmptyNode EXCEPT !.role = "button", !.name = "Go",
                       !.keys = <<"role", "name">>],
     [EmptyNode EXCEPT !.name = "Go", !.keys = <<"name">>],
     [EmptyNode EXCEPT !.role = "checkbox", !.value = "on",
                       !.checked = "True",
                       !.keys = <<"role", "value", "checked">>]}

RECURSIVE TreesOf(_), ForestsOf(_)
\* The sequences of trees that have n nodes together.
ForestsOf(n) ==
    IF n = 0 THEN {<<>>}
    ELSE UNION {{<<t>> \o f : t \in TreesOf(k), f \in ForestsOf(n - k)} :
                    k \in 1..n}

\* The trees of n nodes.
TreesOf(n) ==
    IF n = 0 THEN {}
    ELSE {[l EXCEPT !.children = f] : l \in NodeLabels, f \in ForestsOf(n - 1)}

Trees == UNION {TreesOf(n) : n \in 1..MaxNodes}

ReverseSeq(q) == [i \in 1..Len(q) |-> q[Len(q) + 1 - i]]

RECURSIVE Twin(_)
\* The same tree, each dict of which holds its keys in the opposite order.
Twin(node) ==
    [node EXCEPT !.keys = ReverseSeq(@),
                 !.children = [i \in 1..Len(@) |-> Twin(@[i])]]

\* if not node
IsEmptyNode(node) == node.keys = <<>> /\ node.children = <<>>

\* node.get(key, default)
Get(node, key, default) == IF node[key] = "None" THEN default ELSE node[key]

\* A formatted string is the sequence of the lines that "\n" separates;
\* the empty string is <<>>, and the empty string joined to other lines is
\* one line without any text.
BlankLine == [spaces |-> 0, kind |-> "blank", text |-> <<>>]

AppendChildUnguarded(lines, child_output) ==
    lines \o (IF child_output = <<>> THEN <<BlankLine>> ELSE child_output)

\* if child_output: lines.append(child_output)
AppendChild(lines, child_output) ==
    IF child_output # <<>> THEN lines \o child_output ELSE lines

RECURSIVE format_node(_, _), format_children(_, _, _)
\* for child in children, from the i-th on
format_children(children, indent, i) ==
    IF i > Len(children) THEN <<>>
    ELSE AppendChild(<<>>, format_node(children[i], indent + 1))
            \o format_children(children, indent, i + 1)

\* playwright_browser.py, format_node(node, indent=0)
format_node(node, indent) ==
    IF IsEmptyNode(node) THEN <<>>
    ELSE LET role == Get(node, "role", "unknown")
             name == Get(node, "name", "")
             line == [spaces |-> IndentWidth * indent,
                      kind |-> "role",
                      text |-> IF name # "" THEN <<role, name>>
                                            ELSE <<role>>]
         IN  <<line>> \o format_children(node.children, indent, 1)

prop_keys == <<"value", "checked", "selected">>

\* str.capitalize() of the property keys
Capitalize == [value |-> "Value", checked |-> "Checked", selected |-> "Selected"]

PropLine(node, indent, key) ==
    [spaces |-> IndentWidth * indent + 2, kind |-> Capitalize[key],
     text |-> <<node[key]>>]

PropLinesInKeyOrder(node, indent) ==
    LET IsProp(k) == \E i \in 1..Len(prop_keys) : prop_keys[i] = k
        present == SelectSeq(node.keys,
                             LAMBDA k : IsProp(k) /\ node[k] # "None")
    IN  [i \in 1..Len(present) |-> PropLine(node, indent, present[i])]

\* for prop_key in ["value", "checked", "selected"]
PropLines(node, indent) ==
    LET present == SelectSeq(prop_keys, LAMBDA k : node[k] # "None")
    IN  [i \in 1..Len(present) |-> PropLine(node, indent, present[i])]

RECURSIVE main_format_node(_, _), main_format_children(_, _, _)
main_format_children(children, indent, i) ==
    IF i > Len(children) THEN <<>>
    ELSE AppendChild(<<>>, main_format_node(children[i], indent + 1))
            \o main_format_children(children, indent, i + 1)

\* main.py, format_node(node, indent=0)
main_format_node(node, indent) ==
    IF IsEmptyNode(node) THEN <<>>
    ELSE LET role == Get(node, "role", "unknown")
             name == Get(node, "name", "")
             description == Get(node, "description", "")
             Detail(kind, s) ==
                 IF s # ""
                 THEN <<[spaces |-> IndentWidth * indent + 2,
                         kind |-> kind, text |-> <<s>>]>>
                 ELSE <<>>
         IN  <<[spaces |-> IndentWidth * indent, kind |-> "role",
                text |-> <<role>>]>>
             \o Detail("Name", name)
             \o Detail("Description", description)
             \o PropLines(node, indent)
             \o main_format_children(node.children, indent, 1)

FormatInit ==
    /\ NavOff
    /\ DetectOff
    /\ TriggerOff
    /\ PairOff
    /\ f_pc = "call"
    /\ f_tree \in Trees
    /\ f_out = NoOutput
    /\ f_twin_out = NoOutput
    /\ PolicyOff
    /\ CacheOff
    /\ InvokeOff
    /\ StoresOff

\* playwright_browser.py formats the tree, and formats its twin
CompactFormat ==
    /\ f_pc = "call"
    /\ f_pc' = "compact"
    /\ f_out' = [f_out EXCEPT !.compact = format_node(f_tree, 0)]
    /\ f_twin_out' = [f_twin_out EXCEPT
                         !.compact = format_node(Twin(f_tree), 0)]
    /\ UNCHANGED <<navvars, detvars, trigvars, pairvars, f_tree, polvars,
                   cachevars, invvars, recentvars, redisvars, gatevars>>

\* main.py formats the tree, and formats its twin
RichFormat ==
    /\ f_pc = "compact"
    /\ f_pc' = "returned"
    /\ f_out' = [f_out EXCEPT !.rich = main_format_node(f_tree, 0)]
    /\ f_twin_out' = [f_twin_out EXCEPT
                         !.rich = main_format_node(Twin(f_tree), 0)]
    /\ UNCHANGED <<navvars, detvars, trigvars, pairvars, f_tree, polvars,
                   cachevars, invvars, recentvars, redisvars, gatevars>>

FormatNext == CompactFormat \/ RichFormat

SpecFormat == FormatInit /\ [][FormatNext]_vars

\* ------------------------------------------------- the invocation policy
\* A string is the sequence of its pieces.  Each piece is a run of
\* characters that the regular expressions of policy.py treat alike, and no
\* string of the model has two spellings.
PieceLen ==
    [p \in {"http://", "example", "EXAMPLE"} |-> 7] @@
    [p \in {"HTTPS://"} |-> 8] @@
    [p \in {"8080", "evil", "find"} |-> 4] @@
    [p \in {"com", "org", "sub"} |-> 3] @@
    [p \in {".", ":", "/", "x", ")", " "} |-> 1]

RECURSIVE StrLen(_)
\* len(text)
StrLen(text) ==
    IF text = <<>> THEN 0 ELSE PieceLen[Head(text)] + StrLen(Tail(text))

\* str.lower() of one piece
LowerPiece(p) ==
    CASE p = "EXAMPLE" -> "example"
      [] p = "HTTPS://" -> "https://"
      [] OTHER -> p

\* str.lower()
Lower(text) == [i \in 1..Len(text) |-> LowerPiece(text[i])]

\* str.endswith(suffix)
EndsWith(text, suffix) ==
    /\ Len(suffix) <= Len(text)
    /\ SubSeq(text, Len(text) - Len(suffix) + 1, Len(text)) = suffix

\* str.strip() == ""
IsBlank(text) == \A i \in 1..Len(text) : text[i] = " "

\* https?:// under re.IGNORECASE
IsScheme(p) == LowerPiece(p) \in {"http://", "https://"}

\* The last index of the run of pieces from i on that are not in stops,
\* i - 1 where the i-th piece is one of them.
RunEnd(text, i, stops) ==
    LET at == {k \in i..Len(text) : text[k] \in stops}
    IN  IF at = {} THEN Len(text)
        ELSE (CHOOSE k \in at : \A m \in at : k <= m) - 1

RECURSIVE FindAll(_, _)
\* _URL_RE.findall(text), from the i-th piece on
FindAll(text, i) ==
    IF i > Len(text) THEN <<>>
    ELSE IF IsScheme(text[i])
         THEN LET j == RunEnd(text, i + 1, {" ", ")"})
              IN  IF j > i
                  THEN <<SubSeq(text, i, j)>> \o FindAll(text, j + 1)
                  ELSE FindAll(text, i + 1)
         ELSE FindAll(text, i + 1)

_extract_urls(text) == FindAll(text, 1)

NoHost == [matched |-> FALSE, host |-> <<>>]

\* _domain_of(url): None where the expression does not match
_domain_of(url) ==
    IF url = <<>> \/ ~IsScheme(url[1]) THEN NoHost
    ELSE LET j == RunEnd(url, 2, {"/"})
             group == SubSeq(url, 2, j)
             host == SubSeq(group, 1, RunEnd(group, 1, {":"}))
         IN  IF j < 2 THEN NoHost
             ELSE [matched |-> TRUE, host |-> Lower(host)]

_host_allowed(host, allowlisted_domains) ==
    IF allowlisted_domains = <<>> THEN TRUE
    ELSE \E k \in 1..Len(allowlisted_domains) :
            LET a == Lower(allowlisted_domains[k])
            IN  Lower(host) = a \/ EndsWith(Lower(host), <<".">> \o a)

\* PolicyDecision(allowed=True)
Allowed ==
    [allowed |-> TRUE, status_code |-> 200, code |-> "None", host |-> <<>>]

NoDecision ==
    [allowed |-> FALSE, status_code |-> 0, code |-> "None", host |-> <<>>]

PayloadTooLarge ==
    [allowed |-> FALSE, status_code |-> 413, code |-> "PAYLOAD_TOO_LARGE",
     host |-> <<>>]

DomainNotAllowed(host) ==
    [allowed |-> FALSE, status_code |-> 403, code |-> "DOMAIN_NOT_ALLOWED",
     host |-> host]

RECURSIVE CheckUrls(_, _, _)
\* for url in urls, from the i-th on
CheckUrls(urls, i, allowlisted_domains) ==
    IF i > Len(urls) THEN Allowed
    ELSE LET host == _domain_of(urls[i])
         IN  IF /\ host.matched
                /\ host.host # <<>>
                /\ ~_host_allowed(host.host, allowlisted_domains)
             THEN DomainNotAllowed(host.host)
             ELSE CheckUrls(urls, i + 1, allowlisted_domains)

\* A query is [none |-> TRUE] for None, and a text otherwise.
evaluate_invoke_policy(query, max_query_chars, allowlisted_domains) ==
    IF query.none \/ IsBlank(query.text) THEN Allowed
    ELSE IF StrLen(query.text) > max_query_chars THEN PayloadTooLarge
    ELSE LET urls == _extract_urls(query.text)
         IN  IF urls # <<>> /\ allowlisted_domains # <<>>
             THEN CheckUrls(urls, 1, allowlisted_domains)
             ELSE Allowed

ExampleCom == <<"example", ".", "com">>

\* The words and URLs that a query is made of.
Tokens ==
    {<<"find">>,
     <<"http://">> \o ExampleCom,
     <<"HTTPS://", "EXAMPLE", ".", "com", ":", "8080", "/", "x">>,
     <<"http://", "evil">> \o ExampleCom,
     <<"http://", "sub", ".">> \o ExampleCom \o <<"/", "x">>,
     <<"http://", "/", "x">>,
     <<"http://", "evil", ".", "org">>,
     <<"http://">> \o ExampleCom \o <<")">>}

RECURSIVE Join(_)
\* " ".join(tokens)
Join(tokens) ==
    IF Len(tokens) = 0 THEN <<>>
    ELSE IF Len(tokens) = 1 THEN tokens[1]
    ELSE tokens[1] \o <<" ">> \o Join(Tail(tokens))

Spaces(n) == [i \in 1..n |-> " "]

QueryLimits == {10, 40}

Queries ==
    {[none |-> TRUE, text |-> <<>>]}
    \cup {[none |-> FALSE, text |-> t] :
            t \in {Join(q) : q \in SeqsUpTo(Tokens, MaxTokens)}
                  \cup {Spaces(n + 1) : n \in QueryLimits}}

Allowlists ==
    {<<>>, <<ExampleCom>>, <<<<"EXAMPLE", ".", "com">>, <<"org">>>>}

PolicyInit ==
    /\ NavOff
    /\ DetectOff
    /\ TriggerOff
    /\ PairOff
    /\ FormatOff
    /\ p_pc = "call"
    /\ p_query \in Queries
    /\ p_max \in QueryLimits
    /\ p_allow \in Allowlists
    /\ p_out = NoDecision
    /\ CacheOff
    /\ InvokeOff
    /\ StoresOff

\* evaluate_invoke_policy(query=..., max_query_chars=..., allowlisted_domains=...)
PolicyCall ==
    /\ p_pc = "call"
    /\ p_pc' = "returned"
    /\ p_out' = evaluate_invoke_policy(p_query, p_max, p_allow)
    /\ UNCHANGED <<navvars, detvars, trigvars, pairvars, fmtvars,
                   p_query, p_max, p_allow, cachevars, invvars, recentvars, redisvars, gatevars>>

PolicyNext == PolicyCall

SpecPolicy == PolicyInit /\ [][PolicyNext]_vars

\* ------------------------------------------------- the snapshot cache
\* if len(_playwright_cache) > 50
CacheCapacity == 50

\* _playwright_cache is the sequence of its keys in the order of the dict.
\* A key is the number of the insertion that brought it into the dict; a
\* request that missed the cache and is generating holds 0 (it will not
\* write the cache), -o (a key not yet in the dict, first asked for by the
\* request of slot o) or the number of its key (put there meanwhile by
\* another request for the same URL).
\* The two requests that are under way at a time are told apart by their slot.
Slots == {1, 2}

\* What a request finds on arrival: its use_cache flag, whether its URL is
\* a popular site, and whether its cache key is in the cache.
NoArrival == [use_cache |-> FALSE, popular |-> FALSE, held |-> FALSE]

IdleRequest == [pc |-> "idle", key |-> 0, arrival |-> NoArrival]

\* The request answered last: what it found on arrival, whether it tested
\* the cache for its key, whether a snapshot was generated for it, and the
\* cached flag of its response (FALSE where the response has none).
Answered(arrival, looked, generated, cached) ==
    [arrival |-> arrival, looked |-> looked, generated |-> generated,
     cached |-> cached]

NoAnswer == Answered(NoArrival, FALSE, FALSE, FALSE)

\* if request.use_cache and _is_popular_site(url)
Cacheable(arrival) == arrival.use_cache /\ arrival.popular

LookupIgnoresUseCache(use_cache, popular, cache, key) ==
    popular /\ \E i \in 1..Len(cache) : cache[i] = key

\* lines 751-752: the request is answered from the cache
Lookup(use_cache, popular, cache, key) ==
    use_cache /\ popular /\ \E i \in 1..Len(cache) : cache[i] = key

NoEviction == [inserted |-> 0, removed |-> 0]

InCache(cache, key) == \E i \in 1..Len(cache) : cache[i] = key

\* _playwright_cache[cache_key] = {...}: a key that the dict holds keeps
\* its place
CacheAssign(cache, key) ==
    IF InCache(cache, key) THEN cache ELSE Append(cache, key)

LimitSizeDropsNewest(cache) ==
    IF Len(cache) > CacheCapacity THEN SubSeq(cache, 1, Len(cache) - 1)
    ELSE cache

\* if len(_playwright_cache) > 50: del _playwright_cache[next(iter(...))]
LimitSize(cache) ==
    IF Len(cache) > CacheCapacity THEN Tail(cache) ELSE cache

\* The requests other than s that are generating for the key of s.
Sharers(s) ==
    {o \in Slots \ {s} :
        /\ k_reqs[o].pc = "generating"
        /\ k_reqs[s].key # 0
        /\ k_reqs[o].key = k_reqs[s].key}

CacheInit ==
    /\ NavOff
    /\ DetectOff
    /\ TriggerOff
    /\ PairOff
    /\ FormatOff
    /\ PolicyOff
    /\ k_cache = <<>>
    /\ k_reqs = [s \in Slots |-> IdleRequest]
    /\ k_clock = 0
    /\ k_resp = "none"
    /\ k_evict = NoEviction
    /\ k_last = NoAnswer
    /\ InvokeOff
    /\ StoresOff

\* lines 739-741: the URL is empty
SnapshotRejected(s) ==
    /\ k_reqs[s].pc = "idle"
    /\ k_resp' = "400"
    /\ k_last' = NoAnswer
    /\ UNCHANGED <<navvars, detvars, trigvars, pairvars, fmtvars, polvars,
                   invvars, recentvars, redisvars, gatevars, k_cache, k_reqs,
                   k_clock, k_evict>>

\* lines 739-758: the request arrives, and is answered from the cache or
\* starts to generate the snapshot
SnapshotArrive(s) ==
    /\ k_reqs[s].pc = "idle"
    /\ k_clock < MaxInsertions
    /\ \E use_cache \in BOOLEAN, popular \in BOOLEAN,
          key \in {-s} \cup {k_reqs[o].key : o \in Slots}
                       \cup {k_cache[i] : i \in {1, Len(k_cache)} \cap DOMAIN k_cache} :
          /\ key # 0
          \* a key that is cached or being generated is that of a popular site
          /\ (InCache(k_cache, key) \/ \E o \in Slots : k_reqs[o].key = key)
                => popular
          /\ LET arrival == [use_cache |-> use_cache, popular |-> popular,
                             held |-> InCache(k_cache, key)]
             IN  IF Lookup(use_cache, popular, k_cache, key)
                 THEN /\ k_resp' = "cached"
                      /\ k_last' = Answered(arrival, Cacheable(arrival),
                                            FALSE, TRUE)
                      /\ UNCHANGED k_reqs
                 ELSE /\ k_reqs' = [k_reqs EXCEPT ![s] =
                            [pc |-> "generating",
                             key |-> IF Cacheable(arrival) THEN key ELSE 0,
                             arrival |-> arrival]]
                      /\ UNCHANGED <<k_resp, k_last>>
    /\ UNCHANGED <<navvars, detvars, trigvars, pairvars, fmtvars, polvars,
                   invvars, recentvars, redisvars, gatevars, k_cache, k_clock,
                   k_evict>>

\* lines 761-784: the snapshot is generated, cached and returned
SnapshotGenerated(s) ==
    /\ k_reqs[s].pc = "generating"
    /\ k_resp' = "fresh"
    /\ k_last' = Answered(k_reqs[s].arrival, Cacheable(k_reqs[s].arrival),
                          TRUE, FALSE)
    /\ IF k_reqs[s].key = 0
       THEN /\ k_reqs' = [k_reqs EXCEPT ![s] = IdleRequest]
            /\ UNCHANGED <<k_cache, k_clock, k_evict>>
       ELSE LET held == InCache(k_cache, k_reqs[s].key)
                key == IF held THEN k_reqs[s].key ELSE k_clock + 1
                assigned == CacheAssign(k_cache, key)
                limited == LimitSize(assigned)
            IN  /\ k_cache' = limited
                /\ k_clock' = IF held THEN k_clock ELSE key
                /\ k_reqs' = [o \in Slots |->
                      IF o = s THEN IdleRequest
                      ELSE IF o \in Sharers(s)
                           THEN [k_reqs[o] EXCEPT !.key = key]
                           ELSE k_reqs[o]]
                /\ k_evict' =
                      IF limited = assigned THEN k_evict
                      ELSE [inserted |-> key,
                            removed |-> CHOOSE k \in 1..key :
                                /\ InCache(assigned, k)
                                /\ ~InCache(limited, k)]
    /\ UNCHANGED <<navvars, detvars, trigvars, pairvars, fmtvars, polvars,
                   invvars, recentvars, redisvars, gatevars>>

\* lines 686-721: the generation raises and the request is answered 500
SnapshotFailed(s) ==
    /\ k_reqs[s].pc = "generating"
    /\ k_resp' = "500"
    /\ k_last' = Answered(k_reqs[s].arrival, Cacheable(k_reqs[s].arrival),
                          FALSE, FALSE)
    /\ k_reqs' = [o \in Slots |->
          IF o = s THEN IdleRequest
          ELSE IF o \in Sharers(s) /\ k_reqs[s].key < 0
               THEN [k_reqs[o] EXCEPT !.key =
                        -(CHOOSE m \in Sharers(s) :
                              \A n \in Sharers(s) : m <= n)]
               ELSE k_reqs[o]]
    /\ UNCHANGED <<navvars, detvars, trigvars, pairvars, fmtvars, polvars,
                   invvars, recentvars, redisvars, gatevars, k_cache, k_clock,
                   k_evict>>

CacheNext ==
    \E s \in Slots :
        \/ SnapshotRejected(s)
        \/ SnapshotArrive(s)
        \/ SnapshotGenerated(s)
        \/ SnapshotFailed(s)

SpecCache == CacheInit /\ [][CacheNext]_vars

\* ------------------------------------------------- /mcp/invoke
\* stop_after_attempt(3)
MaxAttempts == 3

\* RECENT_TASKS_MAX
recent_tasks_max == 200

TaskIds == {"t1", "t2"}

\* The two invocations that are under way at a time.
Invokers == {"X", "Y"}

NoRecord == [status |-> "None", attempts |-> 0, created_at |-> 0, updated_at |-> 0]

\* isError is "absent" where the body of the response has no such key.
NoResponse == [status_code |-> 0, isError |-> "absent"]

\* An invocation: where it is, its task_id, its local record, the attempts
\* of the agent and their outcome, whether an operation of the store raised,
\* and its response.
IdleInvocation ==
    [pc |-> "idle", task_id |-> "None", given |-> FALSE, record |-> NoRecord,
     tries |-> 0, agent |-> "none", store_raised |-> FALSE,
     response |-> NoResponse]

\* What has happened to a task_id: the invocations that carried it, those of
\* them that wrote a record, the time at which the first of these started,
\* the one that started last, whether two of them overlapped, and whether
\* an operation of the store raised in one of them.
NoHistory ==
    [invocations |-> 0, wrote |-> 0, first |-> 0, last |-> "None",
     overlapped |-> FALSE, raised |-> FALSE]

\* The invocations other than i that are between their first line and their
\* response with this task_id.
UnderWay(i, task_id) ==
    {o \in Invokers \ {i} :
        i_inv[o].pc \in {"agent", "finish"} /\ i_inv[o].task_id = task_id}

StoreOps == {"get_task", "put_task", "add_recent"}

\* list[:limit], and what del list[limit:] leaves
Slice(list, limit) ==
    LET stop == IF limit < 0
                THEN (IF Len(list) + limit < 0 THEN 0 ELSE Len(list) + limit)
                ELSE (IF limit < Len(list) THEN limit ELSE Len(list))
    IN  SubSeq(list, 1, stop)

\* list.remove(x): the first occurrence is removed
Remove(list, x) ==
    LET at == {i \in 1..Len(list) : list[i] = x}
        first == CHOOSE i \in at : \A j \in at : i <= j
    IN  SubSeq(list, 1, first - 1) \o SubSeq(list, first + 1, Len(list))

add_recent_keeps_old(recent, task_id, max_items) ==
    Slice(<<task_id>> \o recent, max_items)

\* InMemoryStateStore.add_recent
add_recent(recent, task_id, max_items) ==
    LET others == IF \E i \in 1..Len(recent) : recent[i] = task_id
                  THEN Remove(recent, task_id) ELSE recent
        inserted == <<task_id>> \o others
    IN  Slice(inserted, max_items)

RunningRecordFirstAttempt(existing, started) ==
    [status |-> "running", attempts |-> 1, created_at |-> started,
     updated_at |-> started]

\* lines 364-386: the record that the invocation writes before the agent runs
RunningRecord(existing, started) ==
    [status |-> "running",
     attempts |-> IF existing # NoRecord THEN existing.attempts + 1 ELSE 1,
     created_at |-> IF existing # NoRecord THEN existing.created_at
                    ELSE started,
     updated_at |-> started]

RecordFailureSkipped(tasks, task_id, finished, raises) == tasks

\* lines 426-436: the except clause marks the stored record failed, and
\* swallows what the store raises; raises is the set of the operations of
\* the store that raise
RecordFailure(tasks, task_id, finished, raises) ==
    IF "get_task" \in raises \/ tasks[task_id] = NoRecord
          \/ "put_task" \in raises
    THEN tasks
    ELSE [tasks EXCEPT ![task_id] =
            [@ EXCEPT !.status = "failed", !.updated_at = finished]]

\* lines 438-449
ErrorResponse == [status_code |-> 500, isError |-> "True"]

\* lines 413-421
SuccessResponse == [status_code |-> 200, isError |-> "False"]

InvokeInit ==
    /\ NavOff
    /\ DetectOff
    /\ TriggerOff
    /\ PairOff
    /\ FormatOff
    /\ PolicyOff
    /\ CacheOff
    /\ i_inv = [i \in Invokers |-> IdleInvocation]
    /\ i_tasks = [t \in TaskIds |-> NoRecord]
    /\ i_recent = <<>>
    /\ i_now = 1
    /\ i_started = 0
    /\ i_hist = [t \in TaskIds |-> NoHistory]
    /\ StoresOff

\* lines 324-359: the request is refused before the try block
InvokeRefused(i) ==
    /\ i_inv[i].pc = "idle"
    /\ i_started < MaxInvocations
    /\ i_started' = i_started + 1
    /\ \E status_code \in {400, 401} :
          i_inv' = [i_inv EXCEPT ![i] =
              [IdleInvocation EXCEPT
                  !.response = [status_code |-> status_code,
                                isError |-> "absent"]]]
    /\ UNCHANGED <<navvars, detvars, trigvars, pairvars, fmtvars, polvars,
                   recentvars, redisvars, gatevars, cachevars, i_tasks, i_recent, i_now, i_hist>>

\* lines 361-386 and, where something raises, lines 423-449: the task_id is
\* the one given or a fresh uuid4; the record is read, written as running
\* and added to the recent list
InvokeStart(i) ==
    /\ i_inv[i].pc = "idle"
    /\ i_started < MaxInvocations
    /\ i_started' = i_started + 1
    /\ i_now' = i_now + 1
    /\ \E task_id \in TaskIds, given \in BOOLEAN, agent_made \in BOOLEAN,
          raises \in {{}} \cup {{op} : op \in StoreOps},
          handler_raises \in {{}, {"get_task"}, {"put_task"}} :
          LET record == RunningRecord(i_tasks[task_id], i_now)
              written == [i_tasks EXCEPT ![task_id] = record]
              inv == [IdleInvocation EXCEPT !.task_id = task_id,
                                            !.given = given]
              failed == [inv EXCEPT
                            !.response = ErrorResponse,
                            !.agent = IF agent_made THEN "none"
                                      ELSE "not made",
                            !.store_raised =
                                raises # {} \/ handler_raises # {}]
              puts == agent_made /\ raises \in {{}, {"add_recent"}}
              hist == [i_hist[task_id] EXCEPT
                          !.invocations = @ + 1,
                          !.wrote = IF puts THEN @ + 1 ELSE @,
                          !.first = IF puts /\ i_hist[task_id].wrote = 0
                                    THEN i_now ELSE @,
                          !.last = i,
                          !.overlapped = @ \/ UnderWay(i, task_id) # {},
                          !.raised = @ \/ raises # {}
                                       \/ (~(puts /\ raises = {})
                                           /\ handler_raises # {})]
          IN  /\ ~given => i_hist[task_id].invocations = 0
              /\ ~agent_made => raises = {}
              /\ i_hist' = [i_hist EXCEPT ![task_id] = hist]
              /\ IF ~agent_made \/ "get_task" \in raises
                       \/ "put_task" \in raises
                 THEN /\ i_tasks' = RecordFailure(i_tasks, task_id, i_now,
                                                  handler_raises)
                      /\ i_inv' = [i_inv EXCEPT ![i] = failed]
                      /\ UNCHANGED i_recent
                 ELSE IF "add_recent" \in raises
                 THEN /\ i_tasks' = RecordFailure(written, task_id, i_now,
                                                  handler_raises)
                      /\ i_inv' = [i_inv EXCEPT ![i] =
                             [failed EXCEPT !.record = record]]
                      /\ UNCHANGED i_recent
                 ELSE /\ handler_raises = {}
                      /\ i_tasks' = written
                      /\ i_recent' = add_recent(i_recent, task_id,
                                                recent_tasks_max)
                      /\ i_inv' = [i_inv EXCEPT ![i] =
                             [inv EXCEPT !.pc = "agent", !.record = record]]
    /\ UNCHANGED <<navvars, detvars, trigvars, pairvars, fmtvars, polvars,
                   recentvars, redisvars, gatevars, cachevars>>

\* lines 388-398: one attempt of _invoke_sync in its thread
AgentAttempt(i) ==
    /\ i_inv[i].pc = "agent"
    /\ \E returns \in BOOLEAN :
          i_inv' = [i_inv EXCEPT ![i] =
              [@ EXCEPT !.tries = @ + 1,
                        !.agent = IF returns THEN "returned"
                                  ELSE IF i_inv[i].tries + 1 = MaxAttempts
                                       THEN "raised" ELSE "none",
                        !.pc = IF returns \/ i_inv[i].tries + 1 = MaxAttempts
                               THEN "finish" ELSE "agent"]]
    /\ UNCHANGED <<navvars, detvars, trigvars, pairvars, fmtvars, polvars,
                   recentvars, redisvars, gatevars, cachevars, i_tasks, i_recent, i_now, i_started, i_hist>>

\* lines 400-421 after the agent returned, lines 423-449 after it raised
\* or after the store raised
InvokeFinish(i) ==
    /\ i_inv[i].pc = "finish"
    /\ i_now' = i_now + 1
    /\ \E raises \in {{}, {"put_task"}},
          handler_raises \in {{}, {"get_task"}, {"put_task"}} :
          LET inv == i_inv[i]
              record == [inv.record EXCEPT !.status = "succeeded",
                                           !.updated_at = i_now]
          IN  IF inv.agent = "returned" /\ raises = {}
              THEN /\ handler_raises = {}
                   /\ UNCHANGED i_hist
                   /\ i_tasks' = [i_tasks EXCEPT ![inv.task_id] = record]
                   /\ i_inv' = [i_inv EXCEPT ![i] =
                          [inv EXCEPT !.pc = "idle", !.record = record,
                                      !.response = SuccessResponse]]
              ELSE /\ inv.agent = "raised" => raises = {}
                   /\ i_hist' = [i_hist EXCEPT ![inv.task_id].raised =
                                    @ \/ raises # {} \/ handler_raises # {}]
                   /\ i_tasks' = RecordFailure(i_tasks, inv.task_id, i_now,
                                               handler_raises)
                   /\ i_inv' = [i_inv EXCEPT ![i] =
                          [inv EXCEPT !.pc = "idle",
                                      !.store_raised =
                                          raises # {} \/ handler_raises # {},
                                      !.response = ErrorResponse]]
    /\ UNCHANGED <<navvars, detvars, trigvars, pairvars, fmtvars, polvars,
                   recentvars, redisvars, gatevars, cachevars, i_recent, i_started>>

InvokeNext ==
    \E i \in Invokers :
        \/ InvokeRefused(i)
        \/ InvokeStart(i)
        \/ AgentAttempt(i)
        \/ InvokeFinish(i)

SpecInvoke == InvokeInit /\ [][InvokeNext]_vars

\* ------------------------------------------------- the recent list
RecentIds == {"a", "b", "c"}

NotListed == [limit |-> 0, ids |-> <<>>, from |-> <<>>]

\* InMemoryStateStore.list_recent
list_recent(recent, limit) == Slice(recent, limit)

RecentInit ==
    /\ NavOff
    /\ DetectOff
    /\ TriggerOff
    /\ PairOff
    /\ FormatOff
    /\ PolicyOff
    /\ CacheOff
    /\ InvokeOff
    /\ RedisOff
    /\ GateOff
    /\ r_recent = <<>>
    /\ r_max \in 1..MaxItems
    /\ r_added = [t \in RecentIds |-> 0]
    /\ r_clock = 0
    /\ r_listed = NotListed

\* self._state_store.add_recent(task_id, max_items)
AddRecent ==
    /\ r_clock < MaxAdds
    /\ r_clock' = r_clock + 1
    /\ \E task_id \in RecentIds :
          /\ r_recent' = add_recent(r_recent, task_id, r_max)
          /\ r_added' = [r_added EXCEPT ![task_id] = r_clock + 1]
    /\ UNCHANGED <<navvars, detvars, trigvars, pairvars, fmtvars, polvars,
                   cachevars, invvars, redisvars, gatevars, r_max, r_listed>>

\* main.py, list_tasks: limit = max(1, min(200, int(limit)));
\* _state_store.list_recent(limit)
ListRecent ==
    /\ \E limit \in 1..(MaxItems + 1) :
          r_listed' = [limit |-> limit,
                       ids |-> list_recent(r_recent, limit),
                       from |-> r_recent]
    /\ UNCHANGED <<navvars, detvars, trigvars, pairvars, fmtvars, polvars,
                   cachevars, invvars, redisvars, gatevars, r_recent, r_max, r_added,
                   r_clock>>

RecentNext == AddRecent \/ ListRecent

SpecRecent == RecentInit /\ [][RecentNext]_vars

\* ------------------------------------------------- the recent list in Redis
\* The server processes that share the Redis list.
Processes == {"P", "Q"}

IdleProcess == [pc |-> "idle", task_id |-> "None"]

\* LTRIM key 0 stop
ltrim(list, stop) ==
    SubSeq(list, 1, IF stop + 1 < Len(list) THEN stop + 1 ELSE Len(list))

RedisInit ==
    /\ NavOff
    /\ DetectOff
    /\ TriggerOff
    /\ PairOff
    /\ FormatOff
    /\ PolicyOff
    /\ CacheOff
    /\ InvokeOff
    /\ RecentOff
    /\ GateOff
    /\ q_list = <<>>
    /\ q_procs = [p \in Processes |-> IdleProcess]
    /\ q_max \in 1..MaxItems
    /\ q_calls = 0

\* self._r.lrem("recent_tasks", 0, task_id): every occurrence is removed
Lrem(p) ==
    /\ q_procs[p].pc = "idle"
    /\ q_calls < MaxAdds
    /\ q_calls' = q_calls + 1
    /\ \E task_id \in RecentIds :
          /\ q_list' = SelectSeq(q_list, LAMBDA t : t # task_id)
          /\ q_procs' = [q_procs EXCEPT ![p] =
                            [pc |-> "lpush", task_id |-> task_id]]
    /\ UNCHANGED <<navvars, detvars, trigvars, pairvars, fmtvars, polvars,
                   cachevars, invvars, recentvars, gatevars, q_max>>

\* self._r.lpush("recent_tasks", task_id)
Lpush(p) ==
    /\ q_procs[p].pc = "lpush"
    /\ q_list' = <<q_procs[p].task_id>> \o q_list
    /\ q_procs' = [q_procs EXCEPT ![p].pc = "ltrim"]
    /\ UNCHANGED <<navvars, detvars, trigvars, pairvars, fmtvars, polvars,
                   cachevars, invvars, recentvars, gatevars, q_max,
                   q_calls>>

\* self._r.ltrim("recent_tasks", 0, max_items - 1)
Ltrim(p) ==
    /\ q_procs[p].pc = "ltrim"
    /\ q_list' = ltrim(q_list, q_max - 1)
    /\ q_procs' = [q_procs EXCEPT ![p] = IdleProcess]
    /\ UNCHANGED <<navvars, detvars, trigvars, pairvars, fmtvars, polvars,
                   cachevars, invvars, recentvars, gatevars, q_max,
                   q_calls>>

RedisNext == \E p \in Processes : Lrem(p) \/ Lpush(p) \/ Ltrim(p)

SpecRedis == RedisInit /\ [][RedisNext]_vars

\* ------------------------------------------------- the policy middleware
InvokePath == "/mcp/invoke"

\* Path and method of a request.
Routes ==
    {[path |-> InvokePath, method |-> "POST"],
     [path |-> InvokePath, method |-> "GET"],
     [path |-> "/mcp/manifest", method |-> "GET"],
     [path |-> "/api/tasks", method |-> "POST"]}

\* Request bodies: bytes that json.loads rejects, a JSON value that is not
\* an object, and JSON objects whose "arguments" is absent, a non-empty
\* value that is not an object, or an object with or without a "query".
Bodies ==
    {[json |-> "invalid", arguments |-> "absent", query |-> [none |-> TRUE, text |-> <<>>]],
     [json |-> "not_object", arguments |-> "absent", query |-> [none |-> TRUE, text |-> <<>>]],
     [json |-> "object", arguments |-> "absent", query |-> [none |-> TRUE, text |-> <<>>]],
     [json |-> "object", arguments |-> "not_object", query |-> [none |-> TRUE, text |-> <<>>]]}
    \cup {[json |-> "object", arguments |-> "object", query |-> q] : q \in Queries}

NoRequest == [path |-> "None", method |-> "None", body |-> <<>>]

NoReply == [by |-> "none", status_code |-> 0, isError |-> FALSE, code |-> "None"]

\* JSONResponse(status_code=..., content=_mcp_error(text, code=code))
_mcp_error(status_code, code) ==
    [by |-> "middleware", status_code |-> status_code, isError |-> TRUE,
     code |-> code]

\* An exception that leaves the middleware is answered by the server.
ServerError ==
    [by |-> "server", status_code |-> 500, isError |-> FALSE, code |-> "None"]

\* query=str(query) if query is not None else ""
QueryArgument(body) ==
    IF body.arguments = "object" /\ ~body.query.none
    THEN body.query
    ELSE [none |-> FALSE, text |-> <<>>]

PassThrough(evaluated) ==
    [evaluated |-> evaluated, call_next |-> TRUE, response |-> NoReply]

glazyr_policy_middleware_open(request, config) == PassThrough(FALSE)

\* glazyr_policy_middleware, up to its return or its call of call_next
glazyr_policy_middleware(request, config) ==
    IF request.path # InvokePath \/ request.method # "POST"
    THEN PassThrough(FALSE)
    ELSE IF ~config.policy_enforcement
    THEN PassThrough(FALSE)
    ELSE IF request.body.json = "invalid"
    THEN [evaluated |-> FALSE, call_next |-> FALSE,
          response |-> _mcp_error(400, "INVALID_JSON")]
    ELSE IF request.body.json = "not_object"
            \/ request.body.arguments = "not_object"
    THEN [evaluated |-> FALSE, call_next |-> FALSE, response |-> ServerError]
    ELSE LET decision ==
                 evaluate_invoke_policy(QueryArgument(request.body),
                                        config.max_query_chars,
                                        config.allowlisted_domains)
         IN  IF ~decision.allowed
             THEN [evaluated |-> TRUE, call_next |-> FALSE,
                   response |-> _mcp_error(decision.status_code,
                                           decision.code)]
             ELSE PassThrough(TRUE)

NoEffects == [endpoint |-> FALSE, agent |-> FALSE, record |-> FALSE]

GateInit ==
    /\ NavOff
    /\ DetectOff
    /\ TriggerOff
    /\ PairOff
    /\ FormatOff
    /\ PolicyOff
    /\ CacheOff
    /\ InvokeOff
    /\ RecentOff
    /\ RedisOff
    /\ g_config \in [policy_enforcement : BOOLEAN,
                     max_query_chars : QueryLimits,
                     allowlisted_domains : Allowlists]
    /\ g_pc = "idle"
    /\ g_request = NoRequest
    /\ g_evaluated = FALSE
    /\ g_response = NoReply
    /\ g_effects = NoEffects

\* A request arrives and the middleware runs up to its return or call_next.
GateRequest ==
    /\ g_pc = "idle"
    /\ \E route \in Routes, body \in Bodies :
          LET request == [path |-> route.path, method |-> route.method,
                          body |-> body]
              gate == glazyr_policy_middleware(request, g_config)
          IN  /\ g_request' = request
              /\ g_evaluated' = gate.evaluated
              /\ g_response' = gate.response
              /\ g_pc' = IF gate.call_next THEN "endpoint" ELSE "done"
    /\ UNCHANGED <<navvars, detvars, trigvars, pairvars, fmtvars, polvars,
                   cachevars, invvars, recentvars, redisvars, g_config,
                   g_effects>>

\* call_next(request): the route's endpoint answers. invoke_tool refuses the
\* request or writes the task record and runs the agent; it answers
\* isError = true when it refuses and when the agent or the store fails.
GateEndpoint ==
    /\ g_pc = "endpoint"
    /\ g_pc' = "done"
    /\ \E runs \in BOOLEAN, status_code \in {200, 400, 500} :
          LET invoke == g_request.path = InvokePath
                        /\ g_request.method = "POST"
          IN  /\ runs => invoke /\ status_code # 400
              /\ ~runs => status_code # 500
              /\ g_effects' = [endpoint |-> TRUE, agent |-> runs,
                               record |-> runs]
              /\ g_response' = [by |-> "endpoint",
                                status_code |-> status_code,
                                isError |-> invoke /\ status_code # 200,
                                code |-> "None"]
    /\ UNCHANGED <<navvars, detvars, trigvars, pairvars, fmtvars, polvars,
                   cachevars, invvars, recentvars, redisvars, g_config,
                   g_request, g_evaluated>>

GateNext == GateRequest \/ GateEndpoint

SpecGate == GateInit /\ [][GateNext]_vars

\* ------------------------------------------------------------ properties
RangeOf(q) == {q[i] : i \in DOMAIN q}

Returned == pc = "done" /\ outcome = "returned"

\* The invocation holds a page handle: the caller's or one it created.
HasPage == args.page \/ made.page # "none"

\* C1: for every combination of supplied browser/context/page and every
\* injected failure, browser_navigate ends by returning a NavigationResult
\* and never by propagating an exception to its caller.
C1_AlwaysReturnsResult ==
    pc = "done" => (outcome = "returned" /\ exc = "none" /\ result.url = Url)

\* C2: a returned result has success=false exactly when no page handle came
\* to exist (creation or launch failed on the path that owns the
\* lifecycle); with a page handle the result has success=true and a
\* best-effort snapshot, whatever failed afterwards.
C2_FailureOnlyWithoutPage ==
    Returned =>
        /\ result.success = HasPage
        /\ result.success => result.snapshot.text \in SnapshotTexts
        /\ ~result.success =>
              (OwnsLifecycle(args) /\ BrowserNavigateErrorMsg \in RangeOf(result.errors))

\* C2 witness: navigation failed and the search failed, and the result
\* still has success=true.
C2_Witness ==
    /\ Returned
    /\ result.success
    /\ NavigationErrorMsg \in RangeOf(result.errors)
    /\ ErrorPerformingSearchMsg \in RangeOf(result.warnings)

\* C3: with no browser, context or page supplied, everything the
\* invocation created is closed, and closed exactly once, when it is done,
\* on the success path and on every failure path.
C3_CreatedClosedOnce ==
    /\ \A k \in Kinds : closes[k] <= 1
    /\ (pc = "done" /\ OwnsLifecycle(args)) =>
          /\ outcome = "returned"
          /\ \A k \in Kinds : made[k] # "none" => (made[k] = "closed" /\ closes[k] = 1)

\* C3 witness: page creation failed after the driver, the browser and the
\* context had been created, and all three are closed.
C3_Witness ==
    /\ pc = "done"
    /\ OwnsLifecycle(args)
    /\ ~result.success
    /\ made.page = "none"
    /\ \A k \in {"playwright", "browser", "context"} : made[k] = "closed" /\ closes[k] = 1

\* C4: for every non-empty subset of {browser, context, page} supplied,
\* the invocation composes the missing pieces and, unless creating one of
\* them fails, navigates and returns a result.
C4_AnySubsetComposes ==
    (pc = "done" /\ ~OwnsLifecycle(args) /\ exc # "Error") =>
        (outcome = "returned" /\ result.success)

\* C5: a browser, context or page of the caller is never closed by
\* browser_navigate, on any path.
C5_ProvidedNeverClosed == \A h \in Handles : caller[h] = "open"

\* C5 witness: a call on the caller's page that missed the search box has
\* returned and the page is open.
C5_Witness ==
    /\ Returned
    /\ args.page
    /\ SearchBoxNotFoundMsg \in RangeOf(result.warnings)
    /\ caller.page = "open"

\* C6: whatever browser_navigate creates from a caller-supplied context or
\* browser (a page, a context) is closed when it returns, so that no
\* created page or context is open after any number of calls.
C6_CreatedPiecesClosed ==
    Returned => \A k \in Kinds : made[k] # "open" /\ leaked[k] = 0

DetectOrder(sel) ==
    (IF Truthy(sel) THEN <<sel>> ELSE <<>>) \o <<RoleSelector>>
        \o selectors \o contextual_selectors

Patterns == RangeOf(selectors) \cup RangeOf(contextual_selectors)

\* The first match of the selector is visible and, for a pattern of stage 3
\* or 4, is an input or a textarea.
HasCandidate(dom, sel) ==
    LET el == First(dom, sel)
    IN  IF sel \in Patterns
        THEN el.state = "visible" /\ el.tag \in {"INPUT", "TEXTAREA"}
        ELSE el.state \in {"visible", "stale"}

\* C8: the detector probes explicit selector, role=searchbox, the common
\* patterns and the contextual patterns in that order, stops at the first
\* selector that has a candidate and returns it; with the explicit
\* selector's element and a role=searchbox element both visible it returns
\* the explicit one.
C8_CascadeOrder ==
    d_pc = "returned" =>
        LET ord == DetectOrder(d_sel)
            hits == {i \in 1..Len(ord) : HasCandidate(d_dom, ord[i])}
        IN  /\ IF hits = {}
               THEN d_out.box = "None" /\ d_out.probes = ord
               ELSE LET m == CHOOSE i \in hits : \A j \in hits : i <= j
                    IN  d_out.box = ord[m] /\ d_out.probes = SubSeq(ord, 1, m)
            /\ (/\ Truthy(d_sel)
                /\ First(d_dom, d_sel).state = "visible"
                /\ First(d_dom, RoleSelector).state = "visible") => d_out.box = d_sel

\* C8 witness: both elements are visible and the explicit one was returned.
C8_Witness ==
    /\ d_pc = "returned"
    /\ d_sel = BoxSelector
    /\ First(d_dom, BoxSelector).state = "visible"
    /\ First(d_dom, RoleSelector).state = "visible"
    /\ d_out.box = BoxSelector
    /\ d_out.probes = <<BoxSelector>>

\* The detector ran in this invocation and returned no search box.
DetectionMissed ==
    /\ pc \in {"final_snapshot", "aexit", "done"}
    /\ attempts.detect = 1
    /\ search_box = "None"

\* C9 as stated: after a detection miss the invocation's warnings have
\* gained exactly one entry, whatever the explicit selector did.
C9_MissAddsOneWarning ==
    DetectionMissed => (exc = "none" /\ Len(warnings) = 1)

\* C9 as amended: after a detection miss nothing was raised and the
\* warnings hold exactly one "Search box not found" entry, preceded by one
\* "Explicit selector not found" entry only if an explicit selector was
\* supplied (it raised when probed); the result carries these warnings.
C9_MissWarnings ==
    DetectionMissed =>
        /\ exc = "none"
        /\ \/ warnings = <<SearchBoxNotFoundMsg>>
           \/ /\ Truthy(args.search_box_selector)
              /\ warnings = <<ExplicitSelectorMsg, SearchBoxNotFoundMsg>>
        /\ pc = "done" => (outcome = "returned" /\ result.warnings = warnings)

\* C9 witness: the explicit selector raised, no stage found a search box,
\* and the result carries both warnings.
C9_Witness ==
    /\ Returned
    /\ DetectionMissed
    /\ result.warnings = <<ExplicitSelectorMsg, SearchBoxNotFoundMsg>>

\* C10: what stage 3 or 4 returns is a visible INPUT or TEXTAREA, and a
\* probed pattern whose first match fails the tag check, or raises in it,
\* is not returned: the cascade goes on with the next pattern.
C10_PatternStagesReturnInputs ==
    d_pc = "returned" =>
        /\ d_out.box \in Patterns =>
              /\ First(d_dom, d_out.box).state = "visible"
              /\ First(d_dom, d_out.box).tag \in {"INPUT", "TEXTAREA"}
        /\ \A i \in 1..Len(d_out.probes) :
              LET sel == d_out.probes[i]
                  el == First(d_dom, sel)
              IN  (/\ sel \in Patterns
                   /\ \/ el.state = "stale"
                      \/ el.state = "visible" /\ el.tag \notin {"INPUT", "TEXTAREA"})
                  => /\ d_out.box # sel
                     /\ \/ i < Len(d_out.probes)
                        \/ sel = contextual_selectors[Len(contextual_selectors)]

\* C10 witness: a visible non-input element matches the first common
\* pattern and the detector returned the input of a later pattern.
C10_Witness ==
    /\ d_pc = "returned"
    /\ First(d_dom, selectors[1]).state = "visible"
    /\ First(d_dom, selectors[1]).tag = "DIV"
    /\ d_out.box = selectors[Len(selectors)]

\* C11: whenever the page holds a visible input or textarea that matches
\* the explicit selector or a pattern of stage 2, 3 or 4, the detector
\* returns an element and not None, also when an element matching the same
\* selector earlier in document order is not visible.
C11_VisibleMatchFound ==
    d_pc = "returned" =>
        ((\E i \in 1..Len(d_dom) :
              /\ d_dom[i].state = "visible"
              /\ d_dom[i].tag \in {"INPUT", "TEXTAREA"}
              /\ d_dom[i].matches \in RangeOf(DetectOrder(d_sel)))
         => d_out.box # "None")

\* The order in which the invoker tries its click stages.
TriggerOrder(sel) ==
    (IF Truthy(sel) THEN <<sel>> ELSE <<>>)
        \o <<FormSubmitLocator, AriaLabelLocator>> \o text_patterns

\* The button a click stage resolves to.
StageButton(buttons, how) ==
    IF how \in RangeOf(text_patterns)
    THEN FirstNamed(buttons, how) ELSE FirstButton(buttons, how)

\* The click stages whose button can be clicked, and those that raise.
ClickableStages(buttons, sel) ==
    {i \in 1..Len(TriggerOrder(sel)) :
        StageButton(buttons, TriggerOrder(sel)[i]).state = "visible"}
RaisingStages(buttons, sel) ==
    {i \in 1..Len(TriggerOrder(sel)) :
        StageButton(buttons, TriggerOrder(sel)[i]).state \in {"broken", "unclickable"}}

IsPress(act) == act.op = "press"
IsDone(act) == act.ok

\* C12: when no click stage succeeds, Enter is pressed in the search box
\* exactly once and the call returns what the press did: True if it
\* completed, False if and only if it raised; the call never raises, it
\* always returns a boolean.
C12_EnterFallbackDecides ==
    t_pc = "returned" =>
        /\ t_out.clicked \in BOOLEAN
        /\ ClickableStages(t_buttons, t_sel) = {} =>
              /\ SelectSeq(t_out.acts, IsPress)
                    = <<[op |-> "press", target |-> "Enter", ok |-> (t_enter = "ok")]>>
              /\ t_out.clicked = (t_enter = "ok")
        /\ ~t_out.clicked <=>
              [op |-> "press", target |-> "Enter", ok |-> FALSE] \in RangeOf(t_out.acts)

\* C12 witness: the only button's click raised, the Enter press raised
\* too, and the call returned False.
C12_Witness ==
    /\ t_pc = "returned"
    /\ \E i \in 1..Len(t_buttons) : t_buttons[i].state = "unclickable"
    /\ ClickableStages(t_buttons, t_sel) = {}
    /\ t_enter = "raise"
    /\ Len(SelectSeq(t_out.acts, IsPress)) = 1
    /\ ~t_out.clicked

\* C13: the stages are tried in the order explicit selector, form submit,
\* aria-label, button text, Enter; the call returns True right after the
\* first stage whose click or key press completes: no later stage is
\* probed, and the completed click or press is the last thing the call
\* does, so a call makes at most one successful activation.
C13_FirstSuccessEndsCall ==
    t_pc = "returned" =>
        LET ord == TriggerOrder(t_sel)
            hits == ClickableStages(t_buttons, t_sel)
            acts == t_out.acts
        IN  /\ Len(SelectSeq(acts, IsDone)) <= 1
            /\ t_out.clicked <=> (acts # <<>> /\ acts[Len(acts)].ok)
            /\ \A i \in 1..Len(acts) : acts[i].ok => i = Len(acts)
            /\ IF hits = {}
               THEN /\ t_out.probes = ord
                    /\ acts # <<>> /\ IsPress(acts[Len(acts)])
               ELSE LET m == CHOOSE i \in hits : \A j \in hits : i <= j
                    IN  /\ t_out.probes = SubSeq(ord, 1, m)
                        /\ acts[Len(acts)] = [op |-> "click", target |-> ord[m], ok |-> TRUE]
                        /\ SelectSeq(acts, IsPress) = <<>>
                        /\ t_out.clicked

\* C13 witness: the explicit selector matched nothing, the form's submit
\* control was clicked, and neither the visible aria-label button of the
\* page nor Enter was touched.
C13_Witness ==
    /\ t_pc = "returned"
    /\ t_sel = ButtonSelector
    /\ \E i \in 1..Len(t_buttons) : t_buttons[i].locator = AriaLabelLocator
                                    /\ t_buttons[i].state = "visible"
    /\ t_out.clicked
    /\ t_out.probes = <<ButtonSelector, FormSubmitLocator>>
    /\ t_out.acts = <<[op |-> "click", target |-> FormSubmitLocator, ok |-> TRUE]>>

IsMissWarning(w) == w = SearchBoxNotFoundMsg

\* C15: with a search query supplied on a page where the detector finds no
\* search box, the result has success=true and search_performed=false,
\* its warnings hold one "Search box not found" entry, and its snapshot is
\* the extraction made right after navigation: the invocation extracted
\* once.
C15_MissKeepsPreSnapshot ==
    (Returned /\ DetectionMissed) =>
        /\ should_search(args)
        /\ result.success
        /\ ~result.search_performed
        /\ Len(SelectSeq(result.warnings, IsMissWarning)) = 1
        /\ extractions = 1
        /\ result.snapshot = snapshot
        /\ result.snapshot.at = 1
        /\ result.snapshot.text \in SnapshotTexts

\* C15 witness: navigation failed, the detector missed, and the result
\* carries the first extraction.
C15_Witness ==
    /\ Returned
    /\ DetectionMissed
    /\ NavigationErrorMsg \in RangeOf(result.errors)
    /\ result.warnings = <<SearchBoxNotFoundMsg>>
    /\ result.snapshot.at = 1
    /\ extractions = 1

\* No explicit selector was supplied, the detector found a search box, the
\* fill completed and a click stage of the invoker clicked.
ClickTriggered ==
    /\ ~Truthy(args.search_box_selector)
    /\ ~Truthy(args.search_button_selector)
    /\ search_box # "None"
    /\ attempts.trigger = 1
    /\ activation = "click"

WaitCompleted == waits # <<>> /\ waits[Len(waits)].ok

\* The result of a search that went through: performed, the query echoed,
\* no warnings, and the snapshot of the invocation's second extraction.
FreshSearchResult ==
    /\ result.search_performed
    /\ result.search_query = args.search_query
    /\ result.warnings = <<>>
    /\ extractions = 2
    /\ result.snapshot = snapshot
    /\ result.snapshot.at = 2

\* C16 as stated: when the detector finds a search box, the fill completes
\* and a click stage of the invoker succeeds, no explicit selector being
\* supplied, the result has search_performed=true, the supplied query, no
\* warnings and a snapshot extracted afresh after the trigger and the wait.
C16_ClickGivesFreshResult ==
    (Returned /\ ClickTriggered) => FreshSearchResult

\* C16 as amended: the same, provided the wait for results or the fixed
\* delay that replaces it completes; when both raise, the result has
\* search_performed=false, the single warning "Error performing search"
\* and the pre-search snapshot.  Nothing is extracted between the
\* pre-search snapshot and the end of the wait.
C16_ClickAndWaitGiveFreshResult ==
    /\ pc \in {"detect", "fill", "trigger", "wait"} => extractions = 1
    /\ (Returned /\ ClickTriggered) =>
          IF WaitCompleted
          THEN FreshSearchResult
          ELSE /\ ~result.search_performed
               /\ result.warnings = <<ErrorPerformingSearchMsg>>
               /\ result.snapshot.at = 1

\* C16 witness: a click stage clicked, the wait for network idle raised,
\* the fixed delay completed, and the result carries the second extraction.
C16_Witness ==
    /\ Returned
    /\ ClickTriggered
    /\ waits = <<[op |-> "networkidle", ok |-> FALSE], [op |-> "delay", ok |-> TRUE]>>
    /\ FreshSearchResult

IsNavigationError(e) == e = NavigationErrorMsg

\* C17: a navigate call that raises or times out appends exactly one
\* navigation-error entry to errors; the flow goes on with the snapshot
\* extraction and, if a search was requested, with detection, fill and
\* trigger, and the result has success=true and a search_performed that
\* the later stages alone decide (trigger ran, the flow proceeded to the
\* wait, the wait completed).
C17_NavigationErrorAbsorbed ==
    /\ Len(SelectSeq(errors, IsNavigationError)) <= 1
    /\ (Returned /\ NavigationErrorMsg \in RangeOf(errors)) =>
          /\ result.success
          /\ result.errors = <<NavigationErrorMsg>>
          /\ extractions >= 1
          /\ result.snapshot.text \in SnapshotTexts
          /\ should_search(args) =>
                /\ attempts.detect = 1
                /\ search_box # "None" => attempts.fill = 1
          /\ result.search_performed
                = (/\ attempts.trigger = 1
                   /\ ProceedsToWait(button_clicked, args)
                   /\ WaitCompleted)

\* C17 witness: navigation failed and the search that followed was
\* performed, every step having run once.
C17_Witness ==
    /\ Returned
    /\ result.errors = <<NavigationErrorMsg>>
    /\ \A s \in Steps : attempts[s] = 1
    /\ result.success
    /\ result.search_performed
    /\ result.snapshot.at = 2

\* C18 as stated: search_performed is true in the result only if
\* _click_search_button returned True in that invocation, and the wait for
\* results is entered only then, with or without an explicit button
\* selector.
C18_PerformedOnlyIfTriggered ==
    /\ waits # <<>> => (attempts.trigger = 1 /\ button_clicked)
    /\ (Returned /\ result.search_performed) => (attempts.trigger = 1 /\ button_clicked)

\* C18 as amended: search_performed is true in the result only if the
\* invoker ran and either returned True or no explicit button selector
\* was supplied, and the wait completed; the wait is entered only under
\* the same condition, so with an explicit button selector only after the
\* invoker returned True.
C18_PerformedOnlyIfProceeded ==
    /\ waits # <<>> =>
          (attempts.trigger = 1
           /\ (button_clicked \/ ~Truthy(args.search_button_selector)))
    /\ search_performed => WaitCompleted
    /\ (Returned /\ result.search_performed) =>
          /\ attempts.trigger = 1
          /\ button_clicked \/ ~Truthy(args.search_button_selector)
          /\ WaitCompleted

\* C18 witness: no explicit button selector, no stage clicked and the
\* Enter press raised, so the invoker returned False, and the result has
\* search_performed=true.
C18_Witness ==
    /\ Returned
    /\ attempts.trigger = 1
    /\ ~button_clicked
    /\ EnterFailedMsg \in RangeOf(result.warnings)
    /\ result.search_performed

ErrorMsgs == {NavigationErrorMsg, BrowserNavigateErrorMsg}
WarningMsgs ==
    {ExplicitSelectorMsg, SearchBoxNotFoundMsg, ErrorPerformingSearchMsg,
     SearchButtonNotFoundMsg, ExplicitButtonMsg, EnterFailedMsg}

\* C20: errors holds nothing but launch/resource-creation messages and
\* navigation-error messages, in every state and in every result; from the
\* pre-search snapshot to the final one errors is what navigation left, and
\* a detection miss, a fill failure, a trigger failure and a wait failure
\* each have their entry in warnings.
C20_ErrorsOnlyLaunchAndNavigation ==
    /\ RangeOf(errors) \subseteq ErrorMsgs
    /\ RangeOf(result.errors) \subseteq ErrorMsgs
    /\ RangeOf(warnings) \subseteq WarningMsgs
    /\ RangeOf(result.warnings) \subseteq WarningMsgs
    /\ pc \in {"pre_snapshot", "detect", "fill", "trigger", "wait", "final_snapshot"}
          => errors \in {<<>>, <<NavigationErrorMsg>>}
    /\ (Returned /\ result.success) => result.errors \in {<<>>, <<NavigationErrorMsg>>}
    /\ pc \in {"final_snapshot", "aexit", "done"} =>
          /\ DetectionMissed => SearchBoxNotFoundMsg \in RangeOf(warnings)
          /\ (attempts.fill = 1 /\ attempts.trigger = 0)
                => ErrorPerformingSearchMsg \in RangeOf(warnings)
          /\ (attempts.trigger = 1 /\ ~button_clicked)
                => EnterFailedMsg \in RangeOf(warnings)
          /\ (waits # <<>> /\ ~WaitCompleted)
                => ErrorPerformingSearchMsg \in RangeOf(warnings)

\* C20 witness: the detector's explicit selector raised, the invoker's
\* Enter press raised, the waits raised, and errors is empty in the result.
C20_Witness ==
    /\ Returned
    /\ result.success
    /\ result.errors = <<>>
    /\ result.warnings = <<ExplicitSelectorMsg, EnterFailedMsg, ErrorPerformingSearchMsg>>
    /\ waits # <<>> /\ ~WaitCompleted

\* C19: in every interleaving of two concurrent invocations that share no
\* browser, context or page, the result of each is the result of its own
\* run: its warnings and errors are the entries it appended itself, in
\* order, its snapshot is the last one extracted from its own page, and
\* success and search_performed are those of its own flow; nothing the
\* other invocation produced appears in it.
C19_ResultsIndependent ==
    \A i \in Invocations :
        c_inv[i].pc = "done" =>
            LET r == c_inv[i].result
                mine == c_own[i]
            IN  /\ r.warnings = mine.warnings
                /\ r.errors = mine.errors
                /\ r.success = (BrowserNavigateErrorMsg \notin RangeOf(mine.errors))
                /\ r.search_performed = c_inv[i].search_performed
                /\ r.success =>
                      /\ mine.snapshots # <<>>
                      /\ r.snapshot = mine.snapshots[Len(mine.snapshots)]
                      /\ r.snapshot.page = i
                /\ ~r.success => r.snapshot = EmptySnapshot

\* C19 witness: both invocations are done; A's navigation failed and its
\* search was performed, B missed the search box, and each result holds
\* its own entries only.
C19_Witness ==
    /\ \A i \in Invocations : c_inv[i].pc = "done"
    /\ c_inv["A"].result.errors = <<NavigationErrorMsg>>
    /\ c_inv["A"].result.search_performed
    /\ c_inv["A"].result.warnings = <<>>
    /\ c_inv["B"].result.errors = <<>>
    /\ c_inv["B"].result.warnings = <<SearchBoxNotFoundMsg>>

IsSearchError(w) == w = ErrorPerformingSearchMsg

\* The fill ran and raised: the flow left the fill for the final snapshot
\* without calling the invoker.
FillRaised ==
    /\ pc \in {"final_snapshot", "aexit", "done"}
    /\ attempts.fill = 1
    /\ attempts.trigger = 0

\* C26: the order is detect, fill, trigger: the fill runs only after the
\* detector returned an element, the invoker is called only after a fill
\* that completed, and when the fill raises the invoker is never called,
\* one "Error performing search" warning is recorded and search_performed
\* stays false.
C26_DetectFillTriggerOrder ==
    /\ (pc = "fill" \/ attempts.fill = 1) => (attempts.detect = 1 /\ search_box # "None")
    /\ pc = "fill" => (attempts.fill = 0 /\ attempts.trigger = 0)
    /\ (pc = "trigger" \/ attempts.trigger = 1) => attempts.fill = 1
    /\ pc = "trigger" =>
          (attempts.trigger = 0 /\ ErrorPerformingSearchMsg \notin RangeOf(warnings))
    /\ FillRaised =>
          /\ Len(SelectSeq(warnings, IsSearchError)) = 1
          /\ warnings[Len(warnings)] = ErrorPerformingSearchMsg
          /\ ~search_performed
          /\ waits = <<>>
          /\ pc = "done" => (outcome = "returned" /\ ~result.search_performed
                             /\ result.warnings = warnings)

\* C26 witness: the detector found a search box, the fill raised, and the
\* call returned without the invoker having run.
C26_Witness ==
    /\ Returned
    /\ FillRaised
    /\ search_box # "None"
    /\ result.warnings = <<ErrorPerformingSearchMsg>>

\* C27: when search_query is absent or empty, or auto_search is false, the
\* detector, the fill and the invoker are never called, the page is
\* navigated once and extracted once, and the result has
\* search_performed=false, search_query null and no warnings.
C27_NoSearchUnlessRequested ==
    (~Truthy(args.search_query) \/ ~args.auto_search) =>
        /\ \A s \in {"detect", "fill", "trigger"} : attempts[s] = 0
        /\ attempts.goto <= 1 /\ extractions <= 1
        /\ waits = <<>> /\ warnings = <<>>
        /\ (Returned /\ result.success) =>
              /\ attempts.goto = 1
              /\ extractions = 1
              /\ ~result.search_performed
              /\ result.search_query = "None"
              /\ result.warnings = <<>>
              /\ result.snapshot.at = 1

\* C27 witness: a query was supplied with auto_search false, and the call
\* returned the page's snapshot without searching.
C27_Witness ==
    /\ Returned
    /\ result.success
    /\ args.search_query = "shoes"
    /\ ~args.auto_search
    /\ attempts = [goto |-> 1, detect |-> 0, fill |-> 0, trigger |-> 0]
    /\ result.search_query = "None"

\* The wait for network idle was made and raised or timed out.
IdleWaitFailed == waits # <<>> /\ waits[1] = [op |-> "networkidle", ok |-> FALSE]

\* C28 as stated: a wait for network idle that times out or raises does
\* not end the flow: the fixed delay runs, search_performed is set, the
\* final snapshot is extracted afresh and the timeout adds nothing to
\* warnings or errors; with wait_for_results false no wait for network
\* idle is made, only the fixed delay.
C28_IdleTimeoutRecovered ==
    /\ ~args.wait_for_results => \A i \in 1..Len(waits) : waits[i].op = "delay"
    /\ (IdleWaitFailed /\ pc \in {"final_snapshot", "aexit", "done"}) =>
          /\ Len(waits) = 2 /\ waits[2].op = "delay"
          /\ search_performed
          /\ ErrorPerformingSearchMsg \notin RangeOf(warnings)
          /\ pc = "done" =>
                (outcome = "returned" /\ result.search_performed
                 /\ result.snapshot.at = 2)

\* C28 as amended: the same, provided the fixed delay that replaces the
\* wait completes; when the fixed delay raises too, search_performed stays
\* false, one "Error performing search" warning is recorded and the
\* pre-search snapshot is kept.  The first wait is for network idle
\* exactly when wait_for_results is true.
C28_IdleTimeoutFallsBackToDelay ==
    /\ waits # <<>> =>
          waits[1].op = (IF args.wait_for_results THEN "networkidle" ELSE "delay")
    /\ \A i \in 2..Len(waits) : waits[i].op = "delay"
    /\ (IdleWaitFailed /\ pc \in {"final_snapshot", "aexit", "done"}) =>
          /\ Len(waits) = 2 /\ waits[2].op = "delay"
          /\ errors \in {<<>>, <<NavigationErrorMsg>>}
          /\ IF waits[2].ok
             THEN /\ search_performed
                  /\ ErrorPerformingSearchMsg \notin RangeOf(warnings)
                  /\ SearchButtonNotFoundMsg \notin RangeOf(warnings)
                  /\ pc = "done" =>
                        (outcome = "returned" /\ result.search_performed
                         /\ result.warnings = warnings
                         /\ extractions = 2 /\ result.snapshot.at = 2)
             ELSE /\ ~search_performed
                  /\ Len(SelectSeq(warnings, IsSearchError)) = 1
                  /\ pc = "done" =>
                        (outcome = "returned" /\ ~result.search_performed
                         /\ result.snapshot.at = 1)

\* C28 witness: the wait for network idle failed, the fixed delay
\* completed, and the result has search_performed=true, no warnings, no
\* errors and the second extraction.
C28_Witness ==
    /\ Returned
    /\ waits = <<[op |-> "networkidle", ok |-> FALSE], [op |-> "delay", ok |-> TRUE]>>
    /\ result.search_performed
    /\ result.warnings = <<>>
    /\ result.errors = <<>>
    /\ result.snapshot.at = 2

\* any(pattern.lower() in text.lower() for pattern in text_patterns)
TextHasKeyword(text) ==
    LowerCase(text) \in {LowerCase(text_patterns[i]) : i \in 1..Len(text_patterns)}

\* The buttons the raw text scan is to look at: the first ScanLimit button
\* elements of the page that are visible and whose text has a keyword.
ScanCandidates(buttons) ==
    {i \in 1..Len(buttons) :
        /\ i <= ScanLimit
        /\ buttons[i].locator = "button"
        /\ buttons[i].state = "visible"
        /\ TextHasKeyword(buttons[i].text)}

\* C29: when stages 1-3 and the accessible-name lookup of stage 4 find no
\* button, and one of the first ten button elements of the page is visible
\* and has an inner text containing a keyword, the raw text scan clicks
\* that button and Enter is not pressed.
C29_RawTextScanClicks ==
    t_pc = "returned" =>
        ((/\ \A i \in 1..Len(TriggerOrder(t_sel)) :
                StageButton(t_buttons, TriggerOrder(t_sel)[i]) = NoButton
          /\ ScanCandidates(t_buttons) # {})
         => /\ t_out.clicked
            /\ SelectSeq(t_out.acts, IsPress) = <<>>
            /\ \E i \in 1..Len(t_out.acts) :
                  t_out.acts[i].op = "click" /\ t_out.acts[i].ok)

\* C21: format_node is deterministic: two structurally identical trees
\* (same roles, names, properties and child order, whatever the order in
\* which their dicts hold the keys) are formatted to the same string, by
\* the compact formatter and by the rich formatter.
C21_FormatDeterministic ==
    f_pc = "returned" => f_twin_out = f_out

\* A tree with a node of two properties, whose twin holds them in the other
\* order, has been formatted by both formatters.
C21_Witness ==
    /\ f_pc = "returned"
    /\ Twin(f_tree) # f_tree
    /\ \E i \in 1..Len(f_out.rich) : f_out.rich[i].kind = "Checked"
    /\ Len(f_out.compact) > 1

RECURSIVE NonEmptyNodes(_, _), NonEmptyIn(_, _, _)
NonEmptyIn(children, depth, i) ==
    IF i > Len(children) THEN <<>>
    ELSE NonEmptyNodes(children[i], depth) \o NonEmptyIn(children, depth, i + 1)

\* The non-empty nodes of a tree in depth-first pre-order, with their depth.
NonEmptyNodes(node, depth) ==
    IF node = EmptyNode THEN <<>>
    ELSE <<[role |-> IF node.role = "None" THEN "unknown" ELSE node.role,
            depth |-> depth]>>
         \o NonEmptyIn(node.children, depth + 1, 1)

IsRoleLine(line) == line.kind = "role"

OneRoleLinePerNode(tree, out) ==
    LET nodes == NonEmptyNodes(tree, 0)
        role_lines == SelectSeq(out, IsRoleLine)
    IN  /\ Len(role_lines) = Len(nodes)
        /\ \A i \in 1..Len(nodes) :
               /\ role_lines[i].text[1] = nodes[i].role
               /\ role_lines[i].spaces = 2 * nodes[i].depth
        /\ \A i \in 1..Len(out) : out[i].kind # "blank"
        /\ (tree = EmptyNode => out = <<>>)

\* C30: the formatted output holds exactly one role line per non-empty
\* node, in depth-first pre-order with children in sequence order, each
\* prefixed by 2 x depth spaces; an empty node yields the empty string and
\* contributes no line; a node with children and no name still has its role
\* line.
C30_OneRoleLinePerNode ==
    f_pc = "returned" =>
        /\ OneRoleLinePerNode(f_tree, f_out.compact)
        /\ OneRoleLinePerNode(f_tree, f_out.rich)
        /\ Len(f_out.compact) = Len(NonEmptyNodes(f_tree, 0))

\* A nameless node with an empty child followed by a non-empty child has
\* been formatted.
C30_Witness ==
    /\ f_pc = "returned"
    /\ f_tree.name = "None"
    /\ Len(f_tree.children) = 2
    /\ f_tree.children[1] = EmptyNode
    /\ f_tree.children[2] # EmptyNode
    /\ Len(f_out.compact) = 2

\* An empty node alone has been formatted to the empty string.
C30_WitnessEmpty ==
    f_pc = "returned" /\ f_tree = EmptyNode /\ f_out.rich = <<>>

\* C22: a query longer than max_query_chars is denied with 413
\* PAYLOAD_TOO_LARGE whatever it contains, and a query of at most
\* max_query_chars characters is never answered 413.
C22_LongQueryDenied ==
    (p_pc = "returned" /\ ~p_query.none) =>
        /\ StrLen(p_query.text) > p_max =>
              /\ ~p_out.allowed
              /\ p_out.status_code = 413
              /\ p_out.code = "PAYLOAD_TOO_LARGE"
        /\ StrLen(p_query.text) <= p_max => p_out.status_code # 413

\* The claim's test of one URL: it has a host, and the host is an
\* allowlisted domain or ends with a dot followed by one.
HostOfUrlAllowed(url, allowlisted_domains) ==
    LET h == _domain_of(url)
    IN  /\ h.matched
        /\ \E k \in 1..Len(allowlisted_domains) :
              \/ h.host = Lower(allowlisted_domains[k])
              \/ EndsWith(h.host, <<".">> \o Lower(allowlisted_domains[k]))

\* C23: with a non-empty allowlist a non-blank query within the size limit
\* is allowed if and only if every URL found in it has an extracted host that
\* is an allowlisted domain or a subdomain of one; a denial is 403
\* DOMAIN_NOT_ALLOWED naming the first offending host; with an empty
\* allowlist no query is denied for its domain.
C23_AllowedIffHostsAllowlisted ==
    (/\ p_pc = "returned"
     /\ ~p_query.none
     /\ ~IsBlank(p_query.text)
     /\ StrLen(p_query.text) <= p_max) =>
        LET urls == _extract_urls(p_query.text)
            bad == {i \in 1..Len(urls) : ~HostOfUrlAllowed(urls[i], p_allow)}
        IN  /\ p_allow # <<>> =>
                /\ p_out.allowed <=> bad = {}
                /\ ~p_out.allowed =>
                      /\ p_out.status_code = 403
                      /\ p_out.code = "DOMAIN_NOT_ALLOWED"
                      /\ \E i \in bad :
                            /\ \A j \in bad : i <= j
                            /\ p_out.host = _domain_of(urls[i]).host
            /\ p_allow = <<>> => p_out.allowed

\* C24: the snapshot cache is a bounded FIFO: it never holds more than 50
\* entries, and the entry removed when an insertion brings it above 50 is the
\* one whose key came into the cache earliest among those present, never the
\* entry just inserted.
C24_CacheBoundedFifo ==
    /\ Len(k_cache) <= 50
    /\ k_evict.removed # 0 =>
          /\ k_evict.removed # k_evict.inserted
          /\ \A i \in 1..Len(k_cache) : k_evict.removed < k_cache[i]

\* An insertion has found the cache full and an entry has been removed,
\* while another request is still generating.
C24_Witness ==
    /\ k_evict.removed # 0
    /\ Len(k_cache) = 50
    /\ \E s \in Slots : k_reqs[s].pc = "generating"

\* C25: a failure of the task state store never fails the request: where
\* get_task, put_task or add_recent raised during an invocation, the response
\* is the one that a working store gives: isError=false after the agent
\* returned, and the 500 only after the agent raised or could not be made.
C25_StoreFailureNeverFailsRequest ==
    \A i \in Invokers :
        (i_inv[i].pc = "idle" /\ i_inv[i].store_raised) =>
            /\ i_inv[i].agent = "returned" =>
                  i_inv[i].response = SuccessResponse
            /\ i_inv[i].response = ErrorResponse =>
                  i_inv[i].agent \in {"raised", "not made"}

\* The invocation has sent its response from inside or after the try block.
Ended(i) ==
    i_inv[i].pc = "idle" /\ i_inv[i].response.status_code \in {200, 500}

NoneUnderWay(t) ==
    \A o \in Invokers :
        i_inv[o].pc \in {"agent", "finish"} => i_inv[o].task_id # t

\* C31: while the store works, an invocation that wrote a running record
\* overwrites it, in the step that sends the response, with succeeded (agent
\* returned) or failed (agent raised after its retries); the stored status is
\* succeeded if and only if the response has isError=false; and no record
\* is running once no invocation for its task_id is under way.
C31_RunningRecordOverwritten ==
    /\ [][\A i \in Invokers :
            (/\ i_inv[i].pc = "finish"
             /\ i_inv'[i].pc = "idle"
             /\ ~i_hist'[i_inv[i].task_id].raised) =>
                LET status == i_tasks'[i_inv[i].task_id].status
                IN  /\ status = IF i_inv[i].agent = "returned"
                                THEN "succeeded" ELSE "failed"
                    /\ status = "succeeded" <=>
                          i_inv'[i].response.isError = "False"]_vars
    /\ [](\A t \in TaskIds :
            (~i_hist[t].raised /\ NoneUnderWay(t)) =>
                /\ i_tasks[t].status # "running"
                /\ \A i \in Invokers :
                      (/\ Ended(i)
                       /\ i_inv[i].task_id = t
                       /\ i_hist[t].last = i
                       /\ ~i_hist[t].overlapped) =>
                          (i_tasks[t].status = "succeeded" <=>
                              i_inv[i].response.isError = "False"))

\* An invocation whose agent raised three times has ended and its record is
\* failed, the store having worked.
C31_Witness ==
    \E i \in Invokers :
        /\ Ended(i)
        /\ i_inv[i].agent = "raised"
        /\ i_inv[i].tries = 3
        /\ ~i_hist[i_inv[i].task_id].raised
        /\ i_tasks[i_inv[i].task_id].status = "failed"
        /\ i_inv[i].response.isError = "True"

\* C32: within one request the agent is invoked at most 3 times, an attempt
\* after the first is made only after the previous one raised, the first
\* attempt that returns supplies the response with isError=false, the 500
\* isError=true response is produced only after the third consecutive attempt
\* raised, and the retries leave the attempts field of the record alone.
C32_RetriesDecideResponse ==
    /\ [](\A i \in Invokers :
            /\ i_inv[i].tries <= 3
            /\ Ended(i) =>
                  /\ i_inv[i].agent = "returned" =>
                        i_inv[i].response = SuccessResponse
                  /\ i_inv[i].response = ErrorResponse =>
                        i_inv[i].agent = "raised" /\ i_inv[i].tries = 3)
    /\ [][\A i \in Invokers :
            i_inv'[i].tries > i_inv[i].tries =>
                /\ i_inv'[i].tries = i_inv[i].tries + 1
                /\ i_inv[i].agent = "none"
                /\ i_tasks' = i_tasks
                /\ i_inv'[i].record = i_inv[i].record]_vars

\* C33: while the invocations that carry a task_id do not overlap, the
\* attempts of its stored record is the number of those invocations that
\* wrote a record and its created_at is the start time of the first of them;
\* updated_at never decreases; an invocation without task_id works on a
\* fresh id, and its record has attempts = 1.
C33_AttemptsCountInvocations ==
    /\ [](\A t \in TaskIds :
            (~i_hist[t].overlapped /\ i_tasks[t] # NoRecord) =>
                /\ i_tasks[t].attempts = i_hist[t].wrote
                /\ i_tasks[t].created_at = i_hist[t].first)
    /\ [](\A i \in Invokers :
            (~i_inv[i].given /\ i_inv[i].record # NoRecord) =>
                i_inv[i].record.attempts = 1)
    /\ [][\A t \in TaskIds :
            ~i_hist'[t].overlapped =>
                i_tasks'[t].updated_at >= i_tasks[t].updated_at]_vars

\* Two invocations with the same task_id, one after the other, have written
\* their records, and the second has ended.
C33_Witness ==
    \E t \in TaskIds :
        /\ ~i_hist[t].overlapped
        /\ i_hist[t].wrote = 2
        /\ NoneUnderWay(t)
        /\ i_tasks[t].attempts = 2
        /\ i_tasks[t].created_at < i_tasks[t].updated_at

\* C38: for any interleaving of overlapping invocations with the same
\* task_id, while the store works, the attempts of the stored record never
\* decreases, and once all of them have ended it equals the number of the
\* invocations that wrote a record and the status is that of the invocation
\* that started last.
C38_OverlapKeepsAttempts ==
    /\ [][\A t \in TaskIds :
            ~i_hist'[t].raised =>
                i_tasks'[t].attempts >= i_tasks[t].attempts]_vars
    /\ [](\A t \in TaskIds :
            (/\ ~i_hist[t].raised
             /\ NoneUnderWay(t)
             /\ i_tasks[t] # NoRecord) =>
                /\ i_tasks[t].attempts = i_hist[t].wrote
                /\ \A i \in Invokers :
                      (i_hist[t].last = i /\ i_inv[i].task_id = t) =>
                          (i_tasks[t].status = "succeeded" <=>
                              i_inv[i].response.isError = "False"))

NoDuplicates(list) ==
    \A i, j \in 1..Len(list) : list[i] = list[j] => i = j

\* C34: in InMemoryStateStore, after any sequence of add_recent calls with a
\* fixed max_items >= 1 the recent list holds no id twice, has at most
\* max_items entries, has the id added last at index 0 and the others in the
\* order of their latest add; list_recent(limit) returns the first
\* min(limit, length) entries and leaves the list as it is.
C34_RecentListOrdered ==
    /\ [](/\ NoDuplicates(r_recent)
          /\ Len(r_recent) <= r_max
          /\ r_clock > 0 =>
                /\ r_recent # <<>>
                /\ r_added[r_recent[1]] = r_clock
          /\ \A i, j \in 1..Len(r_recent) :
                i < j => r_added[r_recent[i]] > r_added[r_recent[j]]
          /\ r_listed # NotListed =>
                /\ Len(r_listed.ids) =
                      (IF r_listed.limit < Len(r_listed.from)
                       THEN r_listed.limit ELSE Len(r_listed.from))
                /\ \A i \in 1..Len(r_listed.ids) :
                      r_listed.ids[i] = r_listed.from[i])
    /\ [][r_listed' # r_listed => r_recent' = r_recent]_vars

\* An id has been added again after two others, the list is full, and a
\* listing shorter than the list has been taken.
C34_Witness ==
    /\ r_max = 2
    /\ r_recent = <<"a", "c">>
    /\ r_added["b"] > 0
    /\ r_added["a"] = 4
    /\ r_listed.from = r_recent
    /\ r_listed.ids = <<"a">>

AllIdle == \A p \in Processes : q_procs[p].pc = "idle"

\* C39: in RedisStateStore, under any interleaving of the lrem, lpush and
\* ltrim commands of concurrent add_recent calls from several processes,
\* the list recent_tasks never holds an id twice, and once the calls have
\* completed it has at most max_items entries.
C39_RedisListNoDuplicates ==
    /\ NoDuplicates(q_list)
    /\ AllIdle => Len(q_list) <= q_max

\* The part of C39 about the length: when no add_recent call is under way
\* the list has at most max_items entries.
C39_LengthBoundedAtRest == AllIdle => Len(q_list) <= q_max

\* Every call has completed and the list holds an id twice.
C39_DuplicateAtRest ==
    /\ AllIdle
    /\ q_calls > 0
    /\ ~NoDuplicates(q_list)

GatedRequest ==
    /\ g_config.policy_enforcement
    /\ g_request.path = InvokePath
    /\ g_request.method = "POST"

\* The policy's decision on the query carried by the request.
DecisionOnRequest ==
    evaluate_invoke_policy(QueryArgument(g_request.body),
                           g_config.max_query_chars,
                           g_config.allowlisted_domains)

QueryDenied ==
    /\ g_request.body.json = "object"
    /\ g_request.body.arguments = "object"
    /\ ~DecisionOnRequest.allowed

\* C35: with policy enforcement enabled, a POST /mcp/invoke whose body is not
\* valid JSON or whose query the policy denies is answered by the middleware
\* with an MCP-shaped error (isError = true and the decision's status code)
\* and never reaches the endpoint: no agent is run and no task record is
\* written. A request to another path or method, and every request while
\* enforcement is disabled, is passed through without policy evaluation.
C35_MiddlewareGate ==
    g_request # NoRequest =>
        /\ (GatedRequest /\ g_request.body.json = "invalid") =>
              /\ g_pc = "done"
              /\ g_response = _mcp_error(400, "INVALID_JSON")
              /\ g_effects = NoEffects
        /\ (GatedRequest /\ QueryDenied) =>
              /\ g_pc = "done"
              /\ g_response.by = "middleware"
              /\ g_response.isError
              /\ g_response.status_code = DecisionOnRequest.status_code
              /\ g_response.status_code \in {403, 413}
              /\ g_effects = NoEffects
        /\ ~GatedRequest =>
              /\ ~g_evaluated
              /\ g_response.by \in {"none", "endpoint"}
              /\ g_pc = "done" => g_effects.endpoint

\* A POST /mcp/invoke whose query names a host outside the allowlist has
\* been answered 403 by the middleware.
C35_Witness ==
    /\ GatedRequest
    /\ QueryDenied
    /\ g_pc = "done"
    /\ g_response.status_code = 403

\* The other cases of C35: an invalid body refused, a non-POST request and a
\* request under disabled enforcement answered by the endpoint.
C35_InvalidJsonRefused ==
    GatedRequest /\ g_request.body.json = "invalid" /\ g_pc = "done"

C35_PassedThroughUnevaluated ==
    /\ ~g_config.policy_enforcement
    /\ g_request.path = InvokePath
    /\ g_request.method = "POST"
    /\ g_request.body.json = "invalid"
    /\ g_effects.agent

\* A response that carries the cached flag has been sent last.
SnapshotAnswered == k_resp \in {"cached", "fresh"}

\* The step answers a request from the cache.
CacheHitStep == k_resp' = "cached" /\ k_reqs' = k_reqs

\* The step ends a request that was generating its snapshot.
EndOfGeneration ==
    \E s \in Slots : k_reqs[s].pc = "generating" /\ k_reqs'[s].pc = "idle"

\* The cached flag is set if and only if use_cache is set, the URL is a
\* popular site and the key was in the cache on arrival; a response from the
\* cache had no snapshot generated and left the cache as it was.
CachedFlagExact ==
    /\ [](SnapshotAnswered =>
            (k_last.cached <=>
                Cacheable(k_last.arrival) /\ k_last.arrival.held))
    /\ [](k_last.cached => k_resp = "cached" /\ ~k_last.generated)
    /\ [][CacheHitStep => k_cache' = k_cache]_vars

\* A request without use_cache or for a URL that is no popular site does
\* not test the cache, and neither it nor a request whose generation fails
\* modifies it.
CacheLeftAlone ==
    /\ [](k_resp \in {"cached", "fresh", "500"} =>
            (~Cacheable(k_last.arrival) => ~k_last.looked))
    /\ [][(EndOfGeneration
            /\ (k_resp' = "500" \/ ~Cacheable(k_last'.arrival)))
          => k_cache' = k_cache]_vars

\* C36: a snapshot response has cached = true if and only if use_cache is
\* true, the URL is a popular site and the normalized key is in the cache
\* when the request arrives; then no snapshot is generated and the cache is
\* unchanged; when use_cache is false or the URL is no popular site, or when
\* the generation fails, the cache is neither read nor modified.
C36_CachedFlagAndFrame ==
    /\ CachedFlagExact
    /\ CacheLeftAlone
    /\ [](k_resp = "500" => ~k_last.looked)

\* C36 as the code has it: as above, except that a request with use_cache
\* for a popular site whose generation fails has tested the cache for its
\* key before generating; it does not modify the cache.
C36_CachedFlagAndFrameAmended ==
    /\ CachedFlagExact
    /\ CacheLeftAlone
    /\ [](k_resp \in {"cached", "fresh", "500"} =>
            (k_last.looked <=> Cacheable(k_last.arrival)))

\* A request has been answered from a cache that holds two keys.
C36_Witness ==
    /\ k_resp = "cached"
    /\ k_last.cached
    /\ Len(k_cache) = 2

\* A request without use_cache whose key was in the cache has been answered
\* with a generated snapshot.
C36_BypassedCache ==
    /\ k_resp = "fresh"
    /\ ~k_last.arrival.use_cache
    /\ k_last.arrival.held

\* The generation failed for a request that had tested the cache.
C36_FailedAfterLookup == k_resp = "500" /\ k_last.looked

\* C37: in every result of browser_navigate, success = true implies that
\* snapshot is a non-empty string, a formatted tree or one of the
\* placeholder texts; success = false implies that snapshot is empty,
\* search_performed is false and errors is non-empty; search_performed =
\* true implies success = true and that a search query was requested.
C37_ResultShape ==
    Returned =>
        /\ result.success =>
              /\ result.snapshot.text # ""
              /\ result.snapshot.text \in SnapshotTexts
        /\ ~result.success =>
              /\ result.snapshot.text = ""
              /\ ~result.search_performed
              /\ result.errors # <<>>
        /\ result.search_performed =>
              /\ result.success
              /\ Truthy(args.search_query)
              /\ result.search_query = args.search_query

\* A search was performed and the result carries the placeholder text of a
\* page that gave neither a tree nor body text.
C37_Witness ==
    /\ Returned
    /\ result.success
    /\ result.search_performed
    /\ result.snapshot.text = "Could not generate snapshot"

\* A failure result has been returned.
C37_FailureReturned == Returned /\ ~result.success

====
